---------------------------- MODULE Spec2Model ----------------------------
(***************************************************************************)
(* A model of auto_argparser: the type-directed string converters, the     *)
(* bracket-aware splitter, positional promotion, sub-namespace routing,    *)
(* the flat flag parser the code drives, and the call operations of        *)
(* AutoArgParser.                                                          *)
(*                                                                         *)
(* Strings are sequences of one-character strings, so that prefix tests,   *)
(* stripping, splitting and numeric parsing are computed character by      *)
(* character as the code computes them.                                    *)
(***************************************************************************)
EXTENDS Integers, Sequences, FiniteSets, TLC

(***************************************************************************)
(* Bounds of the model.                                                    *)
(***************************************************************************)
\* longest token list handed to a parser
MaxLen == 3
\* most pieces concatenated into one converter input string
MaxPieces == 3

(***************************************************************************)
(* Characters and Python's str methods.                                    *)
(***************************************************************************)
Digits == {"0", "1", "2", "3", "4", "5", "6", "7", "8", "9"}

DigitVal(c) ==
  CASE c = "0" -> 0 [] c = "1" -> 1 [] c = "2" -> 2 [] c = "3" -> 3
    [] c = "4" -> 4 [] c = "5" -> 5 [] c = "6" -> 6 [] c = "7" -> 7
    [] c = "8" -> 8 [] c = "9" -> 9

UpperChars == <<"A","B","C","D","E","F","G","H","I","J","K","L","M",
                "N","O","P","Q","R","S","T","U","V","W","X","Y","Z">>
LowerChars == <<"a","b","c","d","e","f","g","h","i","j","k","l","m",
                "n","o","p","q","r","s","t","u","v","w","x","y","z">>

\* str.lower() on one character
LowerChar(c) ==
  IF \E i \in 1..Len(UpperChars) : UpperChars[i] = c
  THEN LowerChars[CHOOSE i \in 1..Len(UpperChars) : UpperChars[i] = c]
  ELSE c

\* str.lower()
Lower(s) == [i \in 1..Len(s) |-> LowerChar(s[i])]

\* str.startswith(p)
StartsWith(s, p) == Len(p) <= Len(s) /\ SubSeq(s, 1, Len(p)) = p

\* c in s
Contains(s, c) == \E i \in 1..Len(s) : s[i] = c

\* str.find(c) + 1: the first position of c in s, 0 when absent
Find(s, c) ==
  IF Contains(s, c)
  THEN CHOOSE i \in 1..Len(s) : s[i] = c /\ \A j \in 1..(i-1) : s[j] # c
  ELSE 0

\* str.lstrip(chars)
LStrip(s, chars) ==
  LET k == CHOOSE i \in 1..(Len(s)+1) :
             /\ \A j \in 1..(i-1) : s[j] \in chars
             /\ (i = Len(s)+1 \/ s[i] \notin chars)
  IN SubSeq(s, k, Len(s))

\* str.rstrip(chars)
RStrip(s, chars) ==
  LET k == CHOOSE i \in 0..Len(s) :
             /\ \A j \in (i+1)..Len(s) : s[j] \in chars
             /\ (i = 0 \/ s[i] \notin chars)
  IN SubSeq(s, 1, k)

\* str.strip(chars)
Strip(s, chars) == RStrip(LStrip(s, chars), chars)

\* str.split(sep) for a one-character separator
RECURSIVE SplitOn(_, _)
SplitOn(s, sep) ==
  LET k == Find(s, sep)
  IN IF k = 0 THEN <<s>>
     ELSE <<SubSeq(s, 1, k-1)>> \o SplitOn(SubSeq(s, k+1, Len(s)), sep)

\* sep.join(parts) for a one-character separator
RECURSIVE Join(_, _)
Join(parts, sep) ==
  IF parts = <<>> THEN <<>>
  ELSE IF Len(parts) = 1 THEN parts[1]
  ELSE parts[1] \o <<sep>> \o Join(Tail(parts), sep)

\* the concatenation of a sequence of strings
RECURSIVE Concat(_)
Concat(parts) == IF parts = <<>> THEN <<>> ELSE parts[1] \o Concat(Tail(parts))

(***************************************************************************)
(* Python values.  Every value is a record of the same shape, so that any  *)
(* two values can be compared: t is the Python type, n and e hold numbers  *)
(* (an int n; a float n * 10^e, normalised; a bool 1 or 0), s holds the    *)
(* characters of a str, l the elements of a list, or the alternating keys  *)
(* and values of a mapping.                                                *)
(***************************************************************************)
VInt(n)   == [t |-> "int",   n |-> n, e |-> 0, s |-> <<>>, l |-> <<>>]
VFlt(m, x) == [t |-> "float", n |-> m, e |-> x, s |-> <<>>, l |-> <<>>]
\* float('inf'), float('-inf'), float('nan')
VFltSpecial(w, sign) == [t |-> "float", n |-> sign, e |-> 0, s |-> w, l |-> <<>>]
VStr(s)   == [t |-> "str",   n |-> 0, e |-> 0, s |-> s,    l |-> <<>>]
VBool(b)  == [t |-> "bool",  n |-> IF b THEN 1 ELSE 0, e |-> 0, s |-> <<>>, l |-> <<>>]
VNone     == [t |-> "NoneType", n |-> 0, e |-> 0, s |-> <<>>, l |-> <<>>]
VList(l)  == [t |-> "list",  n |-> 0, e |-> 0, s |-> <<>>, l |-> l]
VTuple(l) == [t |-> "tuple", n |-> 0, e |-> 0, s |-> <<>>, l |-> l]
VDict(l)  == [t |-> "dict",  n |-> 0, e |-> 0, s |-> <<>>, l |-> l]
\* the NoValue placeholder class
NoValue   == [t |-> "NoValue", n |-> 0, e |-> 0, s |-> <<>>, l |-> <<>>]

\* the outcome of evaluating an expression: a value, or a raised exception
Ok(v)      == [exc |-> "none", v |-> v]
Raise(exc) == [exc |-> exc,    v |-> NoValue]

(***************************************************************************)
(* Python's int(), float() and str() on the model's strings.  The model's  *)
(* strings hold no whitespace and no '_', so the grammar below is          *)
(* Python's numeric grammar over the remaining characters.                 *)
(***************************************************************************)
IsDigits(s) == Len(s) > 0 /\ \A i \in 1..Len(s) : s[i] \in Digits

RECURSIVE DigitsVal(_)
DigitsVal(s) ==
  IF s = <<>> THEN 0
  ELSE DigitsVal(SubSeq(s, 1, Len(s)-1)) * 10 + DigitVal(s[Len(s)])

HasSign(s) == s # <<>> /\ s[1] \in {"-", "+"}
Unsigned(s) == IF HasSign(s) THEN Tail(s) ELSE s
SignOf(s) == IF s # <<>> /\ s[1] = "-" THEN -1 ELSE 1

\* int(s)
PyInt(s) ==
  IF IsDigits(Unsigned(s)) THEN Ok(VInt(SignOf(s) * DigitsVal(Unsigned(s))))
  ELSE Raise("ValueError")

\* m * 10^x with the trailing zeros of m moved into the exponent
RECURSIVE NormFloat(_, _)
NormFloat(m, x) ==
  IF m = 0 THEN VFlt(0, 0)
  ELSE IF m % 10 = 0 THEN NormFloat(m \div 10, x + 1)
  ELSE VFlt(m, x)

FloatWords == { <<"i","n","f">>, <<"i","n","f","i","n","i","t","y">>, <<"n","a","n">> }

\* float(s), from the digits before and after the point and the exponent part
\* (k is the position of the exponent mark, 0 when there is none)
PyFloatParts(sign, ip, fp, k, ex) ==
  IF /\ \A i \in 1..Len(ip) : ip[i] \in Digits
     /\ \A i \in 1..Len(fp) : fp[i] \in Digits
     /\ Len(ip) + Len(fp) >= 1
     /\ (k = 0 \/ IsDigits(Unsigned(ex)))
  THEN Ok(NormFloat(sign * DigitsVal(ip \o fp),
                    (IF k = 0 THEN 0 ELSE SignOf(ex) * DigitsVal(Unsigned(ex))) - Len(fp)))
  ELSE Raise("ValueError")

\* float(s), from the mantissa and the exponent part (dot is the position of
\* the point in the mantissa, 0 when there is none)
PyFloatMantissa(sign, mant, dot, k, ex) ==
  PyFloatParts(sign,
               IF dot = 0 THEN mant ELSE SubSeq(mant, 1, dot-1),
               IF dot = 0 THEN <<>> ELSE SubSeq(mant, dot+1, Len(mant)),
               k, ex)

\* float(s), from the sign and the unsigned rest (low is the rest in lower case)
PyFloatBody(sign, body, low, k) ==
  IF low \in FloatWords
  THEN Ok(VFltSpecial(IF low = <<"n","a","n">> THEN low ELSE <<"i","n","f">>,
                      IF low = <<"n","a","n">> THEN 1 ELSE sign))
  ELSE PyFloatMantissa(sign,
                       IF k = 0 THEN body ELSE SubSeq(body, 1, k-1),
                       Find(IF k = 0 THEN body ELSE SubSeq(body, 1, k-1), "."),
                       k,
                       IF k = 0 THEN <<>> ELSE SubSeq(body, k+1, Len(body)))

\* float(s)
PyFloat(s) ==
  PyFloatBody(SignOf(s), Unsigned(s), Lower(Unsigned(s)), Find(Lower(Unsigned(s)), "e"))

\* str(s)
PyStr(s) == Ok(VStr(s))

(***************************************************************************)
(* str2bool                                                                *)
(***************************************************************************)
TrueWords  == { <<"y","e","s">>, <<"t","r","u","e">>, <<"t">>, <<"y">>, <<"1">> }
FalseWords == { <<"n","o">>, <<"f","a","l","s","e">>, <<"f">>, <<"n">>, <<"0">> }

str2bool(bool_argstring) ==
  IF Lower(bool_argstring) \in TrueWords THEN Ok(VBool(TRUE))
  ELSE IF Lower(bool_argstring) \in FalseWords THEN Ok(VBool(FALSE))
  ELSE Raise("ArgumentTypeError")

(***************************************************************************)
(* bracketed_split.  The generator is modelled by the state of its loop:   *)
(* out holds the segments yielded so far, err the assertion that ended it. *)
(* maxsplit is <<>> for None and <<k>> for the number k.                   *)
(***************************************************************************)
openers == <<"[", "{", "(", "<">>
closers == <<"]", "}", ")", ">">>
IsOpener(c) == \E i \in 1..Len(openers) : openers[i] = c
IsCloser(c) == \E i \in 1..Len(closers) : closers[i] = c
opener_to_closer(c) == closers[CHOOSE i \in 1..Len(openers) : openers[i] = c]

\* opening_bracket[depth] = c
SetOpening(ob, depth, c) ==
  IF depth > Len(ob) THEN Append(ob, c) ELSE [ob EXCEPT ![depth] = c]

\* one iteration of the loop over the characters of the string: the bracket
\* bookkeeping
BracketedSplitDepth(c, strip_brackets, st) ==
  IF IsOpener(c)
  THEN [st EXCEPT !.depth = st.depth + 1,
                  !.ob = SetOpening(st.ob, st.depth + 1, c),
                  !.skip = strip_brackets /\ st.depth + 1 = 1]
  ELSE IF IsCloser(c)
  THEN IF st.depth <= 0
       THEN [st EXCEPT !.err = "AssertionError"]
       ELSE IF c # opener_to_closer(st.ob[st.depth])
       THEN [st EXCEPT !.err = "AssertionError"]
       ELSE [st EXCEPT !.depth = st.depth - 1,
                       !.skip = strip_brackets /\ st.depth - 1 = 0]
  ELSE [st EXCEPT !.skip = FALSE]

\* A faulty yield, which splits at the delimiter at every depth.
BracketedSplitYield_any_depth(c, delimiter, maxsplit, st) ==
  IF st.err # "none" \/ st.skip THEN st
  ELSE IF /\ c = delimiter
          /\ (maxsplit = <<>> \/ st.n_yields < maxsplit[1])
  THEN [st EXCEPT !.out = Append(st.out, st.current_string),
                  !.n_yields = st.n_yields + 1,
                  !.current_string = <<>>]
  ELSE [st EXCEPT !.current_string = Append(st.current_string, c)]

\* one iteration of the loop: the yield of a segment, or the character kept
BracketedSplitYield(c, delimiter, maxsplit, st) ==
  IF st.err # "none" \/ st.skip THEN st
  ELSE IF /\ st.depth = 0
          /\ c = delimiter
          /\ (maxsplit = <<>> \/ st.n_yields < maxsplit[1])
  THEN [st EXCEPT !.out = Append(st.out, st.current_string),
                  !.n_yields = st.n_yields + 1,
                  !.current_string = <<>>]
  ELSE [st EXCEPT !.current_string = Append(st.current_string, c)]

BracketedSplitStep(c, delimiter, strip_brackets, maxsplit, st) ==
  BracketedSplitYield(c, delimiter, maxsplit, BracketedSplitDepth(c, strip_brackets, st))

RECURSIVE BracketedSplitLoop(_, _, _, _, _, _)
BracketedSplitLoop(string, delimiter, strip_brackets, maxsplit, i, st) ==
  IF st.err # "none" \/ i > Len(string) THEN st
  ELSE BracketedSplitLoop(string, delimiter, strip_brackets, maxsplit, i + 1,
         BracketedSplitStep(string[i], delimiter, strip_brackets, maxsplit, st))

\* A faulty end, which yields the last segment without the assertion on the depth.
BracketedSplitEnd_unchecked(st) ==
  IF st.err # "none" THEN [out |-> st.out, err |-> st.err]
  ELSE [out |-> Append(st.out, st.current_string), err |-> "none"]

\* the end of the generator: the assertion on the depth and the last yield
BracketedSplitEnd(st) ==
  IF st.err # "none" THEN [out |-> st.out, err |-> st.err]
  ELSE IF st.depth # 0 THEN [out |-> st.out, err |-> "AssertionError"]
  ELSE [out |-> Append(st.out, st.current_string), err |-> "none"]

\* the generator run to its end: [out: the segments yielded, err: "none" or the assertion]
bracketed_split(string, delimiter, strip_brackets, maxsplit) ==
  BracketedSplitEnd(
    BracketedSplitLoop(string, delimiter, strip_brackets, maxsplit, 1,
      [depth |-> 0, ob |-> <<>>, current_string |-> <<>>, n_yields |-> 0,
       out |-> <<>>, err |-> "none", skip |-> FALSE]))

(***************************************************************************)
(* parse_string_guessing_type                                              *)
(***************************************************************************)
FloatishChars == Digits \cup {"."}
Quotes == {"'", "\""}

\* the guesses, on the stripped string
GuessType(string) ==
  IF IsDigits(string) THEN PyInt(string)
  ELSE IF \A i \in 1..Len(LStrip(string, {"-"})) : LStrip(string, {"-"})[i] \in FloatishChars
  THEN PyFloat(string)
  ELSE IF Lower(string) = <<"n","o","n","e">> THEN Ok(VNone)
  ELSE IF Lower(string) \in { <<"t","r","u","e">>, <<"f","a","l","s","e">> } THEN str2bool(string)
  ELSE IF string[1] \in Quotes THEN Ok(VStr(Strip(string, Quotes)))
  ELSE Ok(VStr(string))

parse_string_guessing_type(string0) == GuessType(Strip(string0, {" "}))

(***************************************************************************)
(* Type annotations: k is the origin (or the type itself), args the type   *)
(* arguments.  The annotations of the model are the ones its callables and *)
(* converter inputs use: int, float, str, bool, Any, NoneType, IntEnum     *)
(* classes, attrs classes, and Union, Sequence, List, Tuple, Mapping, Dict *)
(* over them (keys of mappings are hashable).                              *)
(***************************************************************************)
T(k)          == [k |-> k, args |-> <<>>]
TGeneric(k, args) == [k |-> k, args |-> args]
TUnion(args)  == TGeneric("Union", args)
TOptional(a)  == TUnion(<<a, T("NoneType")>>)
TSequence(a)  == TGeneric("Sequence", <<a>>)
TMapping(a, b) == TGeneric("Mapping", <<a, b>>)
TTuple(args)  == TGeneric("Tuple", args)

\* type_utils.get_origin, get_args
get_origin(type_annotation) == type_annotation.k
get_args(type_annotation) == type_annotation.args

\* OrderedDict.__setitem__ on the alternating key, value list
DictPut(l, k, v) ==
  IF \E i \in 1..(Len(l) \div 2) : l[2*i - 1] = k
  THEN [l EXCEPT ![2 * (CHOOSE i \in 1..(Len(l) \div 2) : l[2*i - 1] = k)] = v]
  ELSE l \o <<k, v>>

NoneChars == <<"N","o","n","e">>

(***************************************************************************)
(* get_appropriate_type_converter(type_annotation)(string_rep)             *)
(***************************************************************************)
RECURSIVE Convert(_, _)
RECURSIVE ConvertEach(_, _, _)
RECURSIVE ConvertUnionArms(_, _, _)
RECURSIVE ConvertPairs(_, _, _, _)

\* the generator expression conv_i(s_i) over segs, consumed in order: the list
\* of results, or the first exception (types[i] is the annotation of segs[i])
ConvertEach(types, segs, acc) ==
  IF segs = <<>> THEN Ok(VList(acc))
  ELSE LET r == Convert(types[1], segs[1])
       IN IF r.exc # "none" THEN r
          ELSE ConvertEach(Tail(types), Tail(segs), Append(acc, r.v))

\* OrderedDict((key_converter(k), val_converter(v)) for k, v in kv_pairs)
ConvertPairs(key_type, value_type, kv_pairs, acc) ==
  IF kv_pairs = <<>> THEN Ok(VDict(acc))
  ELSE LET rk == Convert(key_type, kv_pairs[1][1])
       IN IF rk.exc # "none" THEN rk
          ELSE LET rv == Convert(value_type, kv_pairs[1][2])
               IN IF rv.exc # "none" THEN rv
                  ELSE ConvertPairs(key_type, value_type, Tail(kv_pairs),
                                    DictPut(acc, rk.v, rv.v))

\* A faulty arm loop, which tries the arms from the last declared to the first.
ConvertUnionArms_reversed(subtypes, string_rep, i) ==
  IF i > Len(subtypes) THEN Raise("AutoArgParserError")
  ELSE LET r == Convert(subtypes[Len(subtypes) + 1 - i], string_rep)
       IN IF r.exc = "none" THEN r
          ELSE ConvertUnionArms(subtypes, string_rep, i + 1)

\* the loop over the union's arms, from arm i on
ConvertUnionArms(subtypes, string_rep, i) ==
  IF i > Len(subtypes) THEN Raise("AutoArgParserError")
  ELSE LET r == Convert(subtypes[i], string_rep)
       IN IF r.exc = "none" THEN r
          ELSE ConvertUnionArms(subtypes, string_rep, i + 1)

convert_union_string(type_annotation, string_rep) ==
  LET subtypes == get_args(type_annotation)
  IN IF string_rep = NoneChars /\ \E i \in 1..Len(subtypes) : subtypes[i] = T("NoneType")
     THEN Ok(VNone)
     ELSE ConvertUnionArms(subtypes, string_rep, 1)

\* the mapping built from the items the two splits produced
ConvertMappingItems(type_annotation, outer, inner) ==
  IF outer.err # "none" \/ \E i \in 1..Len(inner) : inner[i].err # "none"
  THEN Raise("AssertionError")
  ELSE IF \E i \in 1..Len(inner) : Len(inner[i].out) # 2
  THEN Raise("AutoArgParserError")
  ELSE ConvertPairs(get_args(type_annotation)[1], get_args(type_annotation)[2],
                    [i \in 1..Len(inner) |-> inner[i].out], <<>>)

\* the items of the outer split, each split at its first ':'
ConvertMappingSplit(type_annotation, outer) ==
  ConvertMappingItems(type_annotation, outer,
                      [i \in 1..Len(outer.out) |->
                         bracketed_split(outer.out[i], ":", TRUE, <<1>>)])

convert_mapping_string(type_annotation, string_rep) ==
  ConvertMappingSplit(type_annotation, bracketed_split(string_rep, ",", FALSE, <<>>))

\* Sequence and List: the elements are converted as the splitter yields them
ConvertSequenceItems(subtype, sp) ==
  LET r == ConvertEach([i \in 1..Len(sp.out) |-> subtype], sp.out, <<>>)
  IN IF r.exc # "none" THEN r
     ELSE IF sp.err # "none" THEN Raise(sp.err)
     ELSE r

convert_sequence_string(type_annotation, string_rep) ==
  ConvertSequenceItems(get_args(type_annotation)[1],
                       bracketed_split(string_rep, ",", TRUE, <<>>))

convert_tuple_string(type_annotation, string_rep) ==
  LET subtypes    == get_args(type_annotation)
      string_reps == SplitOn(string_rep, ",")
      r           == ConvertEach(subtypes, string_reps, <<>>)
  IN IF Len(subtypes) # Len(string_reps) THEN Raise("AssertionError")
     ELSE IF r.exc # "none" THEN r
     ELSE Ok(VTuple(r.v.l))

Convert(type_annotation, string_rep) ==
  LET origin_type == get_origin(type_annotation)
  IN IF origin_type \in {"Mapping", "Dict"} THEN convert_mapping_string(type_annotation, string_rep)
     ELSE IF origin_type \in {"Sequence", "List"} THEN convert_sequence_string(type_annotation, string_rep)
     ELSE IF origin_type = "Tuple" THEN convert_tuple_string(type_annotation, string_rep)
     ELSE IF origin_type = "Union" THEN convert_union_string(type_annotation, string_rep)
     ELSE IF origin_type = "bool" THEN str2bool(string_rep)
     ELSE IF origin_type = "int" THEN PyInt(string_rep)
     ELSE IF origin_type = "float" THEN PyFloat(string_rep)
     ELSE IF origin_type = "str" THEN PyStr(string_rep)
     ELSE IF origin_type = "IntEnum" THEN PyInt(string_rep)
     ELSE IF origin_type = "Any" THEN parse_string_guessing_type(string_rep)
     ELSE PyStr(string_rep)

get_appropriate_type_converter(type_annotation, string_rep) ==
  Convert(type_annotation, string_rep)

(***************************************************************************)
(* The flat flag parser: argparse.ArgumentParser as the code uses it       *)
(* (optional arguments only, prefix character '-', abbreviations allowed,  *)
(* a help action unless add_help is off).  Token lists of the model do not *)
(* hold the bare separator '--'.                                           *)
(*                                                                         *)
(* A parser is the sequence of its actions in registration order; an       *)
(* action is [dest, option_strings, kind, conv, ty, default] with kind     *)
(* "help", "store" (one value, converted by its type function) or          *)
(* "store_true".                                                           *)
(***************************************************************************)
HelpAction ==
  [dest |-> <<>>, option_strings |-> << <<"-","h">>, <<"-","-","h","e","l","p">> >>,
   kind |-> "help", conv |-> "none", ty |-> T("NoValue"), default |-> NoValue]

\* ArgumentParser(add_help=True)
ArgumentParser == [actions |-> <<HelpAction>>, exc |-> "none"]

\* the option strings of the parser, in registration order, each with its action
OptionStringActions(parser) ==
  LET RECURSIVE Collect(_)
      Collect(i) ==
        IF i > Len(parser.actions) THEN <<>>
        ELSE [j \in 1..Len(parser.actions[i].option_strings) |->
                [opt |-> parser.actions[i].option_strings[j], act |-> i]] \o Collect(i + 1)
  IN Collect(1)

\* parser.add_argument(*option_strings, default=..., action/type=...): an option
\* string that is already registered raises ArgumentError
add_argument(parser, action) ==
  IF parser.exc # "none" THEN parser
  ELSE IF \E i \in 1..Len(parser.actions) :
            \E j \in 1..Len(parser.actions[i].option_strings), k \in 1..Len(action.option_strings) :
               parser.actions[i].option_strings[j] = action.option_strings[k]
  THEN [parser EXCEPT !.exc = "ArgumentError"]
  ELSE [parser EXCEPT !.actions = Append(parser.actions, action)]

\* _negative_number_matcher: ^-\d+$|^-\d*\.\d+$
LooksLikeNegativeNumber(s) ==
  /\ Len(s) >= 2
  /\ s[1] = "-"
  /\ LET body == Tail(s)
         dot  == Find(body, ".")
     IN \/ IsDigits(body)
        \/ /\ dot # 0
           /\ \A i \in 1..(dot-1) : body[i] \in Digits
           /\ IsDigits(SubSeq(body, dot+1, Len(body)))

\* _has_negative_number_optionals
HasNegativeNumberOptionals(parser) ==
  \E i \in 1..Len(parser.actions) : \E j \in 1..Len(parser.actions[i].option_strings) :
     LooksLikeNegativeNumber(parser.actions[i].option_strings[j])

\* the explicit argument of an option tuple: <<>> is None, <<s>> is the string s
NoExplicit == <<>>

\* _get_option_tuples, over the option strings osa of the parser (eq is the
\* position of '=' in option_string, 0 when there is none)
OptionTuplesAmong(osa, option_string, eq) ==
  IF option_string[2] = "-"
  THEN SelectSeq([i \in 1..Len(osa) |->
                    [hit |-> StartsWith(osa[i].opt,
                                        IF eq # 0 THEN SubSeq(option_string, 1, eq-1)
                                        ELSE option_string),
                     act |-> osa[i].act, option_string |-> osa[i].opt,
                     explicit_arg |-> IF eq # 0
                                      THEN <<SubSeq(option_string, eq+1, Len(option_string))>>
                                      ELSE NoExplicit]],
                 LAMBDA x : x.hit)
  ELSE SelectSeq([i \in 1..Len(osa) |->
                    [hit |-> osa[i].opt = SubSeq(option_string, 1, 2)
                             \/ StartsWith(osa[i].opt, option_string),
                     act |-> osa[i].act, option_string |-> osa[i].opt,
                     explicit_arg |-> IF osa[i].opt = SubSeq(option_string, 1, 2)
                                      THEN <<SubSeq(option_string, 3, Len(option_string))>>
                                      ELSE NoExplicit]],
                 LAMBDA x : x.hit)

\* _get_option_tuples
get_option_tuples(parser, option_string) ==
  OptionTuplesAmong(OptionStringActions(parser), option_string, Find(option_string, "="))

\* _parse_optional, over the option strings osa of the parser and the tuples
\* of the options the string abbreviates
ClassifyArgString(parser, arg_string, osa, eq, tuples) ==
  IF arg_string = <<>> \/ arg_string[1] # "-"
  THEN [cls |-> "A", act |-> 0, option_string |-> arg_string, explicit_arg |-> NoExplicit]
  ELSE IF \E i \in 1..Len(osa) : osa[i].opt = arg_string
  THEN [cls |-> "O", act |-> osa[CHOOSE i \in 1..Len(osa) : osa[i].opt = arg_string].act,
        option_string |-> arg_string, explicit_arg |-> NoExplicit]
  ELSE IF Len(arg_string) = 1
  THEN [cls |-> "A", act |-> 0, option_string |-> arg_string, explicit_arg |-> NoExplicit]
  ELSE IF eq # 0 /\ \E i \in 1..Len(osa) : osa[i].opt = SubSeq(arg_string, 1, eq-1)
  THEN [cls |-> "O",
        act |-> osa[CHOOSE i \in 1..Len(osa) : osa[i].opt = SubSeq(arg_string, 1, eq-1)].act,
        option_string |-> SubSeq(arg_string, 1, eq-1),
        explicit_arg |-> <<SubSeq(arg_string, eq+1, Len(arg_string))>>]
  ELSE IF Len(tuples) > 1
  THEN [cls |-> "ambiguous", act |-> 0, option_string |-> arg_string,
        explicit_arg |-> NoExplicit]
  ELSE IF Len(tuples) = 1
  THEN [cls |-> "O", act |-> tuples[1].act, option_string |-> tuples[1].option_string,
        explicit_arg |-> tuples[1].explicit_arg]
  ELSE IF \/ LooksLikeNegativeNumber(arg_string) /\ ~HasNegativeNumberOptionals(parser)
          \/ Contains(arg_string, " ")
  THEN [cls |-> "A", act |-> 0, option_string |-> arg_string, explicit_arg |-> NoExplicit]
  ELSE [cls |-> "O", act |-> 0, option_string |-> arg_string, explicit_arg |-> NoExplicit]

\* _parse_optional: cls is "A" (a positional), "O" (an option: act is its action,
\* 0 when no option of the parser matches) or "ambiguous" (parser.error)
parse_optional(parser, arg_string) ==
  ClassifyArgString(parser, arg_string, OptionStringActions(parser),
                    Find(arg_string, "="), get_option_tuples(parser, arg_string))

\* the type function of a store action applied to one argument string
TypeFunc(action, arg_string) ==
  IF action.conv = "guess" THEN parse_string_guessing_type(arg_string)
  ELSE Convert(action.ty, arg_string)

\* the exceptions of a type function that argparse reports as an argument error
ArgparseCaught == {"ArgumentTypeError", "TypeError", "ValueError"}

\* the state of one parse: status is "run", "exit0" (help), "exit2" (parser.error)
\* or the exception a type function let through; ns maps dest to value

\* the outcome r of a type function: its value is stored under dest, and an
\* exception ends the parse
StoreConverted(st, dest, seen, r) ==
  IF r.exc = "none"
  THEN [st EXCEPT !.ns = [st.ns EXCEPT ![dest] = r.v], !.seen = seen]
  ELSE IF r.exc \in ArgparseCaught
  THEN [st EXCEPT !.status = "exit2", !.diag = "invalid value"]
  ELSE [st EXCEPT !.status = r.exc]

\* take_action for one tuple
take_action(action, tup, st) ==
  IF action.kind = "help" THEN [st EXCEPT !.status = "exit0"]
  ELSE IF action.kind = "store_true"
  THEN [st EXCEPT !.ns = [st.ns EXCEPT ![action.dest] = VBool(TRUE)],
                  !.seen = st.seen \cup {tup.act}]
  ELSE StoreConverted(st, action.dest, st.seen \cup {tup.act}, TypeFunc(action, tup.args[1]))

\* take_action for the tuples of one option string, in order
RECURSIVE TakeActions(_, _, _)
TakeActions(parser, action_tuples, st) ==
  IF action_tuples = <<>> \/ st.status # "run" THEN st
  ELSE TakeActions(parser, Tail(action_tuples),
                   take_action(parser.actions[action_tuples[1].act], action_tuples[1], st))

\* the number of argument strings the action takes (nargs None: one; help and
\* store_true: none)
NArgs(action) == IF action.kind = "store" THEN 1 ELSE 0

RECURSIVE OptionalTuples(_, _, _, _, _, _, _)

\* the tuple of a flag that takes no argument, before the tuples of the
\* single-dash flags that follow it in the same string
PrependTuple(act, more) ==
  [more EXCEPT !.tuples = <<[act |-> act, args |-> <<>>]>> \o @]

\* a single-dash flag that takes no argument and is followed by more
\* characters: the next character is tried as another single-dash flag
SingleDashTuples(parser, arg_strings, pattern, start_index, act, explicit_arg, osa) ==
  IF \E i \in 1..Len(osa) : osa[i].opt = <<"-", explicit_arg[1][1]>>
  THEN PrependTuple(act,
         OptionalTuples(parser, arg_strings, pattern, start_index,
                        osa[CHOOSE i \in 1..Len(osa) : osa[i].opt = <<"-", explicit_arg[1][1]>>].act,
                        <<"-", explicit_arg[1][1]>>,
                        IF Len(explicit_arg[1]) = 1 THEN NoExplicit
                        ELSE <<SubSeq(explicit_arg[1], 2, Len(explicit_arg[1]))>>))
  ELSE [err |-> "ignored explicit argument", tuples |-> <<>>, stop |-> start_index]

\* the while loop of consume_optional: the tuples collected, or the error raised
OptionalTuples(parser, arg_strings, pattern, start_index, act, option_string, explicit_arg) ==
  IF explicit_arg # NoExplicit
  THEN IF /\ NArgs(parser.actions[act]) = 0
          /\ option_string[2] # "-"
          /\ explicit_arg[1] # <<>>
       THEN SingleDashTuples(parser, arg_strings, pattern, start_index, act, explicit_arg,
                             OptionStringActions(parser))
       ELSE IF NArgs(parser.actions[act]) = 1
       THEN [err |-> "none", tuples |-> <<[act |-> act, args |-> explicit_arg]>>,
             stop |-> start_index + 1]
       ELSE [err |-> "ignored explicit argument", tuples |-> <<>>, stop |-> start_index]
  ELSE IF NArgs(parser.actions[act]) = 0
  THEN [err |-> "none", tuples |-> <<[act |-> act, args |-> <<>>]>>, stop |-> start_index + 1]
  ELSE IF start_index + 1 <= Len(arg_strings) /\ pattern[start_index + 1] = "A"
  THEN [err |-> "none", tuples |-> <<[act |-> act, args |-> <<arg_strings[start_index + 1]>>]>>,
        stop |-> start_index + 2]
  ELSE [err |-> "expected one argument", tuples |-> <<>>, stop |-> start_index]

RECURSIVE ConsumeFrom(_, _, _, _, _)

\* consume_optional at start_index, given the tuples got for it
ConsumeOptional(parser, arg_strings, classes, st, got) ==
  IF got.err # "none" THEN [st EXCEPT !.status = "exit2", !.diag = got.err]
  ELSE ConsumeFrom(parser, arg_strings, classes, got.stop,
                   TakeActions(parser, got.tuples, st))

\* the main loop of _parse_known_args from start_index on (the parser has no
\* positional actions, so every "A" string not taken by an option is an extra)
ConsumeFrom(parser, arg_strings, classes, start_index, st) ==
  IF st.status # "run" \/ start_index > Len(arg_strings) THEN st
  ELSE IF classes[start_index].cls = "A" \/ classes[start_index].act = 0
  THEN ConsumeFrom(parser, arg_strings, classes, start_index + 1,
                   [st EXCEPT !.extras = Append(st.extras, arg_strings[start_index]),
                              !.extra_idx = Append(st.extra_idx, start_index)])
  ELSE ConsumeOptional(parser, arg_strings, classes, st,
         OptionalTuples(parser, arg_strings, [i \in 1..Len(classes) |-> classes[i].cls],
                        start_index, classes[start_index].act,
                        classes[start_index].option_string,
                        classes[start_index].explicit_arg))

\* the defaults of the actions never seen: a str default goes through the
\* action's type function
RECURSIVE ConvertDefaults(_, _, _)
ConvertDefaults(parser, i, st) ==
  IF st.status # "run" \/ i > Len(parser.actions) THEN st
  ELSE ConvertDefaults(parser, i + 1,
         IF \/ i \in st.seen
            \/ parser.actions[i].kind # "store"
            \/ parser.actions[i].default.t # "str"
         THEN st
         ELSE StoreConverted(st, parser.actions[i].dest, st.seen,
                             TypeFunc(parser.actions[i], parser.actions[i].default.s)))

\* _parse_known_args, given the class of every argument string and the
\* namespace of the defaults
ParseKnownClasses(parser, args, classes, st0) ==
  IF \E i \in 1..Len(args) : classes[i].cls = "ambiguous"
  THEN [st0 EXCEPT !.status = "exit2", !.diag = "ambiguous option"]
  ELSE [ConvertDefaults(parser, 1, ConsumeFrom(parser, args, classes, 1, st0))
          EXCEPT !.status = IF @ = "run" THEN "ok" ELSE @]

\* parser.parse_known_args(args): [status, ns, extras, diag]
parse_known_args(parser, args) ==
  ParseKnownClasses(parser, args,
    [i \in 1..Len(args) |-> parse_optional(parser, args[i])],
    [status |-> "run",
     ns |-> [d \in {parser.actions[i].dest :
                      i \in {j \in 1..Len(parser.actions) : parser.actions[j].kind # "help"}} |->
               (parser.actions[CHOOSE i \in 1..Len(parser.actions) :
                                 /\ parser.actions[i].dest = d
                                 /\ parser.actions[i].kind # "help"]).default],
     extras |-> <<>>, extra_idx |-> <<>>, diag |-> "none", seen |-> {}])

\* parse_args on the result of parse_known_args: extras are an error
RejectExtras(r) ==
  IF r.status = "ok" /\ r.extras # <<>>
  THEN [r EXCEPT !.status = "exit2", !.diag = "unrecognized arguments"]
  ELSE r

\* A faulty strict parse, which lets unrecognised tokens pass.
parse_args_lenient(parser, args) == parse_known_args(parser, args)

\* parser.parse_args(args): extras are an error
parse_args(parser, args) == RejectExtras(parse_known_args(parser, args))

(***************************************************************************)
(* The callables of the model and their signatures as                      *)
(* inspect.getfullargspec reports them: the parameter names (with self for *)
(* a class or a bound method), the defaults of the last parameters, and    *)
(* the annotations.                                                        *)
(***************************************************************************)
n_a == <<"a">>
n_b == <<"b">>
n_self == <<"s","e","l","f">>
n_number == <<"n","u","m","b","e","r">>
n_negate == <<"n","e","g","a","t","e">>
n_greeting == <<"g","r","e","e","t","i","n","g">>
n_person == <<"p","e","r","s","o","n">>
n_name == <<"n","a","m","e">>
n_age == <<"a","g","e">>

\* def compute_a_minus_b(a: float, b: float) -> float
compute_a_minus_b ==
  [name |-> "compute_a_minus_b", kind |-> "function",
   args |-> <<n_a, n_b>>, defaults |-> <<>>,
   annotations |-> (n_a :> T("float")) @@ (n_b :> T("float"))]

\* def maybe_negate(number: int, negate: bool = False)
maybe_negate ==
  [name |-> "maybe_negate", kind |-> "function",
   args |-> <<n_number, n_negate>>, defaults |-> <<VBool(FALSE)>>,
   annotations |-> (n_number :> T("int")) @@ (n_negate :> T("bool"))]

\* @attrs(auto_attribs=True) class Person: name: str; age: int
Person ==
  [name |-> "Person", kind |-> "class",
   args |-> <<n_self, n_name, n_age>>, defaults |-> <<>>,
   annotations |-> (n_name :> T("str")) @@ (n_age :> T("int"))]

\* def greet_persion(greeting: str, person: Person)
greet_persion ==
  [name |-> "greet_persion", kind |-> "function",
   args |-> <<n_greeting, n_person>>, defaults |-> <<>>,
   annotations |-> (n_greeting :> T("str")) @@ (n_person :> T("Person"))]

\* the attrs classes, by annotation
AttrsClasses == ("Person" :> Person)

\* attr.has(type)
attr_has(type) == type.k \in DOMAIN AttrsClasses

(***************************************************************************)
(* AutoArgParser.__init__: the descriptor list self._args.  An instance is *)
(* [function, short_names, raise_deep_exceptions, _args].                  *)
(***************************************************************************)
ArgSpec(name, type, default) == [name |-> name, type |-> type, default |-> default]

\* A faulty descriptor list, which keeps the implicit first parameter.
BuildArgSpecs_keep_self(function) ==
  [i \in 1..Len(function.args) |->
     ArgSpec(function.args[i],
             IF function.args[i] \in DOMAIN function.annotations
             THEN function.annotations[function.args[i]] ELSE T("NoValue"),
             IF i <= Len(function.args) - Len(function.defaults) THEN NoValue
             ELSE function.defaults[i - (Len(function.args) - Len(function.defaults))])]

BuildArgSpecs(function) ==
  LET n == Len(function.args)
      d == Len(function.defaults)
      defaults == [i \in 1..n |-> IF i <= n - d THEN NoValue ELSE function.defaults[i - (n - d)]]
      argspecs == [i \in 1..n |->
                     ArgSpec(function.args[i],
                             IF function.args[i] \in DOMAIN function.annotations
                             THEN function.annotations[function.args[i]] ELSE T("NoValue"),
                             defaults[i])]
  IN IF function.kind \in {"method", "class"} THEN Tail(argspecs) ELSE argspecs

\* short_names maps parameter names to short names
NoShortNames == [x \in {} |-> <<>>]

AutoArgParser(function, short_names, raise_deep_exceptions) ==
  [function |-> function, short_names |-> short_names,
   raise_deep_exceptions |-> raise_deep_exceptions,
   args |-> BuildArgSpecs(function)]

(***************************************************************************)
(* Positional promotion and sub-namespace routing.                         *)
(***************************************************************************)
KeyStripChars == {"-", ".", ","} \cup Digits

\* argstr.startswith('-') and len(argstr.lstrip('-.,0123456789')) != 0
\* A faulty key test, which takes every token starting with '-' for a key.
is_argument_key_any_dash(argstr) == StartsWith(argstr, <<"-">>)

is_argument_key(argstr) ==
  StartsWith(argstr, <<"-">>) /\ Len(LStrip(argstr, KeyStripChars)) # 0

\* the loop "Enable pass-by-order by inserting names", from position i on
RECURSIVE PromoteFrom(_, _, _)
PromoteFrom(arg_strings, names, i) ==
  IF i > Len(arg_strings) \/ i > Len(names) THEN arg_strings
  ELSE IF is_argument_key(arg_strings[i]) THEN arg_strings
  ELSE PromoteFrom([arg_strings EXCEPT ![i] = <<"-","-">> \o names[i] \o <<"=">> \o arg_strings[i]],
                   names, i + 1)

\* A faulty promotion, which pairs the leading values with the parameter
\* names in reverse declaration order.
Promote_reversed(arg_strings, argspecs) ==
  PromoteFrom(arg_strings,
              [i \in 1..Len(argspecs) |-> argspecs[Len(argspecs) + 1 - i].name], 1)

Promote(arg_strings, argspecs) ==
  PromoteFrom(arg_strings, [i \in 1..Len(argspecs) |-> argspecs[i].name], 1)

\* the short name of a parameter: <<>> is None, <<s>> the short name s
NoShort == <<>>
ShortNameOf(short_names, name) ==
  IF name \in DOMAIN short_names THEN <<short_names[name]>> ELSE NoShort

\* separate_subargs_under_name: one iteration of its loop
\* A faulty step, which routes the prefixed keys but not the value token
\* that follows one.
SeparateStep_keys_only(argstr, name, short_name, st) ==
  LET full_prefix == <<"-","-">> \o name \o <<".">>
  IN IF is_argument_key(argstr) /\ StartsWith(argstr, full_prefix)
     THEN [keepers |-> Append(st.keepers, <<"-","-">> \o SubSeq(argstr, Len(full_prefix)+1, Len(argstr))),
           remainders |-> st.remainders, last_was_keeper |-> FALSE]
     ELSE [keepers |-> st.keepers, remainders |-> Append(st.remainders, argstr),
           last_was_keeper |-> FALSE]

\* A faulty step, which knows the long prefix only.
SeparateStep_long_prefix_only(argstr, name, short_name, st) ==
  IF is_argument_key(argstr)
  THEN IF StartsWith(argstr, <<"-","-">> \o name \o <<".">>)
       THEN [keepers |-> Append(st.keepers, <<"-","-">> \o SubSeq(argstr, Len(name) + 4, Len(argstr))),
             remainders |-> st.remainders, last_was_keeper |-> TRUE]
       ELSE [keepers |-> st.keepers, remainders |-> Append(st.remainders, argstr),
             last_was_keeper |-> FALSE]
  ELSE IF st.last_was_keeper
  THEN [keepers |-> Append(st.keepers, argstr), remainders |-> st.remainders,
        last_was_keeper |-> FALSE]
  ELSE [keepers |-> st.keepers, remainders |-> Append(st.remainders, argstr),
        last_was_keeper |-> st.last_was_keeper]

SeparateStep(argstr, name, short_name, st) ==
  LET full_prefix == <<"-","-">> \o name \o <<".">>
      short_prefix == <<"-">> \o short_name[1] \o <<".">>
  IN IF is_argument_key(argstr)
     THEN IF StartsWith(argstr, full_prefix)
          THEN [keepers |-> Append(st.keepers, <<"-","-">> \o SubSeq(argstr, Len(full_prefix)+1, Len(argstr))),
                remainders |-> st.remainders, last_was_keeper |-> TRUE]
          ELSE IF short_name # NoShort /\ StartsWith(argstr, short_prefix)
          THEN [keepers |-> Append(st.keepers, <<"-","-">> \o SubSeq(argstr, Len(short_prefix)+1, Len(argstr))),
                remainders |-> st.remainders, last_was_keeper |-> TRUE]
          ELSE [keepers |-> st.keepers, remainders |-> Append(st.remainders, argstr),
                last_was_keeper |-> FALSE]
     ELSE IF st.last_was_keeper
     THEN [keepers |-> Append(st.keepers, argstr), remainders |-> st.remainders,
           last_was_keeper |-> FALSE]
     ELSE [keepers |-> st.keepers, remainders |-> Append(st.remainders, argstr),
           last_was_keeper |-> st.last_was_keeper]

RECURSIVE SeparateLoop(_, _, _, _, _)
SeparateLoop(args, name, short_name, i, st) ==
  IF i > Len(args) THEN st
  ELSE SeparateLoop(args, name, short_name, i + 1, SeparateStep(args[i], name, short_name, st))

\* separate_subargs_under_name(args, name, short_name): [keepers, remainders]
separate_subargs_under_name(args, name, short_name) ==
  SeparateLoop(args, name, short_name, 1,
               [keepers |-> <<>>, remainders |-> <<>>, last_was_keeper |-> FALSE])

(***************************************************************************)
(* _add_arg_to_parser                                                      *)
(***************************************************************************)
\* type(default) as an annotation
TypeOfValue(v) == T(v.t)

\* A faulty flag test, which sees a bare flag only at the end of the list.
IsBooleanFlag_last_only(arg_strings, arg_name, short_name) ==
  /\ arg_strings # <<>>
  /\ ~Contains(arg_strings[Len(arg_strings)], "=")
  /\ LStrip(arg_strings[Len(arg_strings)], {"-"}) = arg_name

\* the test "boolean flag that is not followed by a value"
IsBooleanFlag(arg_strings, arg_name, short_name) ==
  \E i \in 1..Len(arg_strings) :
     /\ \/ ~Contains(arg_strings[i], "=") /\ LStrip(arg_strings[i], {"-"}) = arg_name
        \/ short_name # NoShort /\ LStrip(arg_strings[i], {"-"}) = short_name[1]
     /\ (i = Len(arg_strings) \/ StartsWith(arg_strings[i + 1], <<"-">>))

add_arg_to_parser(parser, arg_strings, arg_name, arg_type, default, short_name) ==
  LET args == (IF short_name # NoShort THEN << <<"-">> \o short_name[1] >> ELSE <<>>)
              \o << <<"-","-">> \o arg_name >>
      arg_type_guess == IF arg_type # T("NoValue") THEN arg_type
                        ELSE IF default # NoValue THEN TypeOfValue(default)
                        ELSE T("NoValue")
      is_flag == arg_type_guess = T("bool") /\ IsBooleanFlag(arg_strings, arg_name, short_name)
  IN add_argument(parser,
       [dest |-> arg_name, option_strings |-> args,
        kind |-> IF is_flag THEN "store_true" ELSE "store",
        conv |-> IF arg_type_guess = T("NoValue") THEN "guess" ELSE "type",
        ty |-> arg_type_guess, default |-> default])

(***************************************************************************)
(* AutoArgParser.parse_arg_string_and_remaining and the call operations.   *)
(* The result of a parse records, next to what it returns or raises, what  *)
(* it computed on the way: the promoted list, the list handed to the flat  *)
(* parser, the flat parser's actions, how the flat parser ended ("not run" *)
(* when an earlier step raised) and the lists routed to nested parsers.    *)
(***************************************************************************)
EmptyMap == [x \in {} |-> NoValue]

\* the instance of a class, or the result of a function, called with kwargs:
\* l alternates parameter names and the values bound to them
VCall(function, kwargs) ==
  LET names == SelectSeq(BuildArgSpecs(function), LAMBDA a : a.name \in DOMAIN kwargs)
  IN [t |-> function.name, n |-> 0, e |-> 0, s |-> <<>>,
      l |-> Concat([i \in 1..Len(names) |-> <<VStr(names[i].name), kwargs[names[i].name]>>])]

\* the parameters Python requires the call to bind: those without a default
RequiredNames(function) ==
  LET specs == BuildArgSpecs(function)
  IN {specs[i].name : i \in {j \in 1..Len(specs) : specs[j].default = NoValue}}

\* A faulty filter, which keeps the placeholders.
DropNoValue_keep_all(ns) == ns

\* {k: v for k, v in vars(args).items() if v is not NoValue}
DropNoValue(ns) == [k \in {d \in DOMAIN ns : ns[d] # NoValue} |-> ns[k]]

\* kwargs.update(sub_kwargs)
Update(kwargs, sub_kwargs) ==
  [k \in DOMAIN kwargs \cup DOMAIN sub_kwargs |->
     IF k \in DOMAIN sub_kwargs THEN sub_kwargs[k] ELSE kwargs[k]]

RECURSIVE parse_arg_string_and_remaining(_, _, _)
RECURSIVE call_from_command_line_with_remaining(_, _, _)
RECURSIVE RegisterArgs(_, _, _, _)

\* a parameter of an attrs class: its tokens sep are routed to a parser of the
\* class, which is run at once; sub is the outcome of that run
StoreNested(argspec, st, sep, sub) ==
  [st EXCEPT !.direct_arg_strings = sep.remainders,
             !.sub_argstrings = (argspec.name :> sep.keepers) @@ st.sub_argstrings,
             !.sub_kwargs = (argspec.name :> sub.return_val) @@ st.sub_kwargs,
             !.exc = sub.exc, !.code = sub.code,
             !.msg_args = sub.msg_args, !.msg_diag = sub.msg_diag,
             !.nested_invoked = st.nested_invoked + sub.invoked]

RegisterNested(argspec, st, sep) ==
  StoreNested(argspec, st, sep,
    call_from_command_line_with_remaining(
      AutoArgParser(AttrsClasses[argspec.type.k], NoShortNames, FALSE), sep.keepers, FALSE))

\* any other parameter: a flag of the flat parser
RegisterFlat(st, added) == [st EXCEPT !.parser = added, !.exc = added.exc]

\* one iteration of the loop "Go through args in signature and define types"
RegisterArg(argspec, short, arg_strings, st) ==
  IF attr_has(argspec.type)
  THEN RegisterNested(argspec, st,
         separate_subargs_under_name(st.direct_arg_strings, argspec.name, short))
  ELSE RegisterFlat(st,
         add_arg_to_parser(st.parser, arg_strings, argspec.name, argspec.type,
                           argspec.default, short))

\* the loop "Go through args in signature and define types", from argspec i on
RegisterArgs(self, arg_strings, i, st) ==
  IF st.exc # "none" \/ i > Len(self.args) THEN st
  ELSE RegisterArgs(self, arg_strings, i + 1,
         RegisterArg(self.args[i], ShortNameOf(self.short_names, self.args[i].name),
                     arg_strings, st))

\* what a parse has computed once the loop over the parameters has ended
Registered(arg_strings, reg) ==
  [exc |-> reg.exc, code |-> reg.code, msg_args |-> reg.msg_args, msg_diag |-> reg.msg_diag,
   kwargs |-> EmptyMap, remaining |-> <<>>,
   arg_strings |-> arg_strings, direct_arg_strings |-> reg.direct_arg_strings,
   parser |-> reg.parser, sub_argstrings |-> reg.sub_argstrings,
   flat_status |-> "not run", nested_invoked |-> reg.nested_invoked]

\* the try block around the flat parse and what follows it, given how the
\* flat parse ended
ParseFlat(self, arg_strings, reg, flat) ==
  IF flat.status = "exit0"
  THEN [Registered(arg_strings, reg) EXCEPT
          !.exc = "SystemExit", !.code = 0, !.flat_status = "exit0"]
  ELSE IF flat.status = "exit2"
  THEN IF self.raise_deep_exceptions
       THEN [Registered(arg_strings, reg) EXCEPT
               !.exc = "AutoArgParserError", !.flat_status = "exit2"]
       ELSE [Registered(arg_strings, reg) EXCEPT
               !.exc = "AutoArgParserError", !.flat_status = "exit2",
               !.msg_args = arg_strings, !.msg_diag = flat.diag]
  ELSE IF flat.status # "ok"
  THEN [Registered(arg_strings, reg) EXCEPT !.exc = flat.status, !.flat_status = flat.status]
  ELSE [Registered(arg_strings, reg) EXCEPT
          !.kwargs = Update(DropNoValue(flat.ns), reg.sub_kwargs),
          !.remaining = flat.extras, !.flat_status = "ok"]

\* the parse after the loop over the parameters
ParseRegistered(self, allow_remaining, arg_strings, reg) ==
  IF reg.exc # "none" THEN Registered(arg_strings, reg)
  ELSE ParseFlat(self, arg_strings, reg,
         IF allow_remaining THEN parse_known_args(reg.parser, reg.direct_arg_strings)
         ELSE parse_args(reg.parser, reg.direct_arg_strings))

\* the parse of the promoted list
ParsePromoted(self, allow_remaining, arg_strings) ==
  ParseRegistered(self, allow_remaining, arg_strings,
    RegisterArgs(self, arg_strings, 1,
      [parser |-> ArgumentParser, direct_arg_strings |-> arg_strings,
       sub_argstrings |-> EmptyMap, sub_kwargs |-> EmptyMap,
       exc |-> "none", code |-> 0, msg_args |-> <<>>, msg_diag |-> "none",
       nested_invoked |-> 0]))

parse_arg_string_and_remaining(self, args, allow_remaining) ==
  ParsePromoted(self, allow_remaining, Promote(args, self.args))

\* The list objects of one parse call.  arg_strings = list(arg_strings) makes
\* a private list and the promotion loop assigns to its items; caller is the
\* list the caller passed, as the call leaves it.
\* A faulty prologue, which promotes in the caller's own list.
ArgStringObjects_shared(self, args) ==
  [caller |-> Promote(args, self.args), arg_strings |-> Promote(args, self.args)]

ArgStringObjects(self, args) ==
  [caller |-> args, arg_strings |-> Promote(args, self.args)]

\* A faulty call, which runs the callable on whatever the parse left behind.
CallFunction_after_failure(self, p) ==
  [p EXCEPT !.return_val = VCall(self.function, p.kwargs), !.invoked = 1]

\* self.function(**kwargs) on the outcome p of the parse
CallFunction(self, p) ==
  IF p.exc # "none" THEN p
  ELSE IF ~(RequiredNames(self.function) \subseteq DOMAIN p.kwargs)
  THEN [p EXCEPT !.exc = "TypeError"]
  ELSE [p EXCEPT !.return_val = VCall(self.function, p.kwargs), !.invoked = 1]

\* call_from_command_line_with_remaining: the parse, then self.function(**kwargs);
\* invoked counts the runs of the wrapped callable's body
call_from_command_line_with_remaining(self, args, allow_remaining) ==
  CallFunction(self, parse_arg_string_and_remaining(self, args, allow_remaining)
                       @@ [return_val |-> NoValue, invoked |-> 0])

\* call_from_command_line
call_from_command_line(self, args) ==
  call_from_command_line_with_remaining(self, args, FALSE)

(***************************************************************************)
(* The parser instances of the model and the tokens their callers pass.    *)
(***************************************************************************)
P_minus      == AutoArgParser(compute_a_minus_b, NoShortNames, FALSE)
P_minus_deep == AutoArgParser(compute_a_minus_b, NoShortNames, TRUE)
P_negate     == AutoArgParser(maybe_negate, NoShortNames, FALSE)
P_greet      == AutoArgParser(greet_persion, NoShortNames, FALSE)

Instances == {P_minus, P_minus_deep, P_negate, P_greet}

tok_help == <<"-","-","h","e","l","p">>
tok_h    == <<"-","h">>

\* the values --negate=<v> is given in the token lists of maybe_negate
BoolValues ==
  TrueWords \cup FalseWords \cup
  { <<"Y","E","S">>, <<"T","r","u","e">>, <<"T">>, <<"N","o">>, <<"F","A","L","S","E">>,
    <<"2">>, <<>>, <<"t","r","u">>, <<"o","n">> }

Vocabulary(self) ==
  IF self.function = compute_a_minus_b
  THEN IF self.raise_deep_exceptions
       THEN { <<"4">>, <<"x">>, <<"-","-","b","=","5">>, <<"-","-","d","=","4">>, tok_help }
       ELSE { <<"4">>, <<"-","5">>, <<"x">>, <<"-","-","b","=","5">>, <<"-","-","b">>,
              <<"-","-","d","=","4">>, tok_help }
  ELSE IF self.function = maybe_negate
  THEN { <<"3">>, <<"-","-","n","u","m","b","e","r","=","3">>, <<"-","-">> \o n_negate,
         <<"-","-","x">>, tok_h }
  ELSE { <<"H","i">>, <<"-","-">> \o n_greeting,
         <<"-","-","p","e","r","s","o","n",".","n","a","m","e">>, <<"S","u">>,
         <<"-","-","p","e","r","s","o","n",".","a","g","e","=","3","0">>, tok_help }

\* the token lists over a vocabulary, up to n tokens
ListsUpTo(V, n) == UNION {[1..k -> V] : k \in 0..n}

\* s with x inserted before position i
InsertAt(s, i, x) == SubSeq(s, 1, i-1) \o <<x>> \o SubSeq(s, i, Len(s))

\* the token lists a caller passes to the instance: the lists over its
\* vocabulary and, for maybe_negate, those with one --negate=<v> among them
TokenLists(self) ==
  ListsUpTo(Vocabulary(self), MaxLen)
  \cup (IF self.function = maybe_negate
        THEN UNION {{InsertAt(s, i, <<"-","-">> \o n_negate \o <<"=">> \o v) :
                       i \in 1..(Len(s) + 1), v \in BoolValues} :
                    s \in ListsUpTo(Vocabulary(self), MaxLen - 1)}
        ELSE {})

(***************************************************************************)
(* The converter inputs of the model: annotations, and strings built from  *)
(* a few pieces.                                                           *)
(***************************************************************************)
U_int_float_seq == TUnion(<<T("int"), T("float"), TSequence(T("int"))>>)

Annotations ==
  { U_int_float_seq, TOptional(T("int")), TUnion(<<T("NoneType"), T("int")>>),
    TUnion(<<T("float"), T("int")>>), TSequence(T("int")), T("int"), T("float") }

Pieces ==
  { <<"5","4">>, <<"3",".","1","4">>, <<",","3","2">>, <<",","2","3">>,
    NoneChars, <<"x">>, <<"[">>, <<"]">> }

Strings == {Concat(ps) : ps \in ListsUpTo(Pieces, MaxPieces)}

(***************************************************************************)
(* The state: a parser instance, the token list its caller holds and the   *)
(* outcome of the operation applied to it; an annotation, a string and the *)
(* outcome of the annotation's converter on the string.                    *)
(***************************************************************************)
VARIABLES
  pc,               \* "ready", then "parsed", "called" or "converted"
  self,             \* the AutoArgParser instance or switch; the other arguments of a module-level call
  args,             \* the caller's token list
  allow_remaining,  \* the mode of the operation
  outcome,          \* what the operation returned or raised, and computed on the way
  type_annotation,  \* the annotation a converter is resolved for
  string_rep,       \* the string handed to the converter
  converted         \* what the converter returned or raised

vars == <<pc, self, args, allow_remaining, outcome, type_annotation, string_rep, converted>>

parser_vars == <<self, args, allow_remaining, outcome>>
converter_vars == <<type_annotation, string_rep, converted>>

NoOutcome == [exc |-> "pending"]

Init ==
  /\ pc = "ready"
  /\ self \in Instances
  /\ args \in TokenLists(self)
  /\ allow_remaining = FALSE
  /\ outcome = NoOutcome
  /\ type_annotation = T("str")
  /\ string_rep = <<>>
  /\ converted = NoOutcome

\* self.parse_arg_string_and_remaining(args, allow_remaining=allow)
ParseArgStringAndRemaining(allow) ==
  /\ pc = "ready"
  /\ pc' = "parsed"
  /\ allow_remaining' = allow
  /\ outcome' = parse_arg_string_and_remaining(self, args, allow)
                  @@ [return_val |-> NoValue, invoked |-> 0]
  /\ UNCHANGED <<self, args>>
  /\ UNCHANGED converter_vars

\* self.call_from_command_line_with_remaining(args)
CallFromCommandLineWithRemaining ==
  /\ pc = "ready"
  /\ pc' = "called"
  /\ allow_remaining' = TRUE
  /\ outcome' = call_from_command_line_with_remaining(self, args, TRUE)
  /\ UNCHANGED <<self, args>>
  /\ UNCHANGED converter_vars

\* self.call_from_command_line(args)
CallFromCommandLine ==
  /\ pc = "ready"
  /\ pc' = "called"
  /\ allow_remaining' = FALSE
  /\ outcome' = call_from_command_line(self, args)
  /\ UNCHANGED <<self, args>>
  /\ UNCHANGED converter_vars

Next ==
  \/ \E allow \in BOOLEAN : ParseArgStringAndRemaining(allow)
  \/ CallFromCommandLineWithRemaining
  \/ CallFromCommandLine

Spec == Init /\ [][Next]_vars

(***************************************************************************)
(* The converters as pure functions: get_appropriate_type_converter is     *)
(* resolved for an annotation and applied to a string.                     *)
(***************************************************************************)
InitConvert ==
  /\ pc = "ready"
  /\ self = P_minus
  /\ args = <<>>
  /\ allow_remaining = FALSE
  /\ outcome = NoOutcome
  /\ type_annotation \in Annotations
  /\ string_rep \in Strings
  /\ converted = NoOutcome

\* get_appropriate_type_converter(type_annotation)(string_rep)
ConvertString ==
  /\ pc = "ready"
  /\ pc' = "converted"
  /\ converted' = get_appropriate_type_converter(type_annotation, string_rep)
  /\ UNCHANGED <<type_annotation, string_rep>>
  /\ UNCHANGED parser_vars

NextConvert == ConvertString

SpecConvert == InitConvert /\ [][NextConvert]_vars

(***************************************************************************)
(* Notions the properties are stated with, defined from the documented     *)
(* meaning of a token rather than from the parser's own tests.             *)
(***************************************************************************)
\* "--<name>=<value>"
Named(name, value) == <<"-","-">> \o name \o <<"=">> \o value

\* A flag key: starts with '-' and holds something other than dashes, digits,
\* '.' and ','. Every other token, a negative number included, is a value.
IsFlagKey(tok) ==
  /\ Len(tok) > 0
  /\ tok[1] = "-"
  /\ \E i \in 1..Len(tok) : tok[i] \notin ({"-", ".", ","} \cup Digits)

IsValue(tok) == ~IsFlagKey(tok)

\* What a caller observes of an outcome.
Observable(r) == [exc |-> r.exc, code |-> r.code, kwargs |-> r.kwargs,
                  remaining |-> r.remaining]

Done == pc \in {"parsed", "called"}

AllPrimitive(p) == \A i \in 1..Len(p.args) : ~attr_has(p.args[i].type)

\* C1: for a callable f(a, b) with primitive-typed parameters and any two
\* values x, y, the token lists [x, y], [x, --b=y] and [--a=x, --b=y] yield
\* the same outcome of parse_arg_string_and_remaining: the same keyword
\* mapping {a: conv(x), b: conv(y)} when both values convert, the same
\* failure otherwise.
C1_PositionalEqualsNamed ==
  ( /\ pc = "parsed"
    /\ AllPrimitive(self)
    /\ Len(self.args) = 2
    /\ Len(args) = 2
    /\ IsValue(args[1]) /\ IsValue(args[2]) )
  => LET a == self.args[1]
         b == self.args[2]
         mixed == parse_arg_string_and_remaining(
                    self, <<args[1], Named(b.name, args[2])>>, allow_remaining)
         named == parse_arg_string_and_remaining(
                    self, <<Named(a.name, args[1]), Named(b.name, args[2])>>, allow_remaining)
         ca == get_appropriate_type_converter(a.type, args[1])
         cb == get_appropriate_type_converter(b.type, args[2])
     IN /\ Observable(outcome) = Observable(mixed)
        /\ Observable(outcome) = Observable(named)
        /\ (ca.exc = "none" /\ cb.exc = "none")
             => /\ outcome.exc = "none"
                /\ outcome.kwargs = (a.name :> ca.v @@ b.name :> cb.v)
                /\ outcome.remaining = <<>>
        /\ (ca.exc # "none" \/ cb.exc # "none") => outcome.exc = "AutoArgParserError"

\* compute_a_minus_b parsed from ['4', '-5'] gives {a: 4.0, b: -5.0}.
C1_Witness ==
  /\ pc = "parsed"
  /\ self = P_minus
  /\ args = << <<"4">>, <<"-","5">> >>
  /\ outcome.exc = "none"
  /\ outcome.kwargs = (n_a :> VFlt(4, 0) @@ n_b :> VFlt(-5, 0))

\* The number of leading tokens that are values.
RECURSIVE LeadingValues(_, _)
LeadingValues(toks, i) ==
  IF i > Len(toks) \/ IsFlagKey(toks[i]) THEN i - 1 ELSE LeadingValues(toks, i + 1)

Min(x, y) == IF x <= y THEN x ELSE y

\* C9: positional promotion rewrites exactly the longest leading run of
\* tokens that are not flag keys, capped at the number of declared
\* parameters: token i of the run becomes --<name_i>=<token>, every other
\* token is left as it is; a token starting with '-' that is purely a
\* negative number counts as a value.
C9_PromotionRun ==
  Done =>
    LET run == Min(LeadingValues(args, 1), Len(self.args))
    IN /\ Len(outcome.arg_strings) = Len(args)
       /\ \A i \in 1..Len(args) :
            outcome.arg_strings[i] =
              IF i <= run THEN Named(self.args[i].name, args[i]) ELSE args[i]

\* compute_a_minus_b given ['-5', '4', 'x']: the negative number and the next
\* value are promoted, the third value is beyond the two parameters.
C9_Witness ==
  /\ Done
  /\ self = P_minus
  /\ args = << <<"-","5">>, <<"4">>, <<"x">> >>
  /\ outcome.arg_strings = << Named(n_a, <<"-","5">>), Named(n_b, <<"4">>), <<"x">> >>

\* The tokens of toks at the positions in S, in their order.
RECURSIVE KeepAt(_, _, _)
KeepAt(toks, S, i) ==
  IF i > Len(toks) THEN <<>>
  ELSE (IF i \in S THEN <<toks[i]>> ELSE <<>>) \o KeepAt(toks, S, i + 1)

\* "--<name>."
RecordPrefix(name) == <<"-","-">> \o name \o <<".">>

RecordParams(p) == {i \in 1..Len(p.args) : attr_has(p.args[i].type)}

\* The positions of toks routed to the record parameter name: the tokens
\* starting with --<name>. and the value token directly following one.
Routed(toks, name) ==
  {i \in 1..Len(toks) :
     \/ StartsWith(toks[i], RecordPrefix(name))
     \/ i > 1 /\ StartsWith(toks[i-1], RecordPrefix(name)) /\ IsValue(toks[i])}

\* The token routed to the nested parser for a routed token: the prefix
\* --<name>. replaced by --, a value left as it is.
Unprefixed(tok, name) ==
  IF StartsWith(tok, RecordPrefix(name))
  THEN <<"-","-">> \o SubSeq(tok, Len(RecordPrefix(name)) + 1, Len(tok))
  ELSE tok

\* C3: a parameter whose declared type is a structured-record class is never
\* registered with the flat parser, and every token starting with --<name>.
\* and the value token directly following such a token are routed to the
\* nested parser of the record (the prefix replaced by --) instead of being
\* handed to the flat parser, which gets the other tokens in their order.
C3_RecordTokensRouted ==
  (Done /\ RecordParams(self) # {}) =>
    \A r \in RecordParams(self) :
      LET name == self.args[r].name
          toks == outcome.arg_strings
          routed == Routed(toks, name)
          sub == KeepAt(toks, routed, 1)
      IN /\ \A i \in 1..Len(outcome.parser.actions) :
              /\ outcome.parser.actions[i].dest # name
              /\ \A j \in 1..Len(outcome.parser.actions[i].option_strings) :
                   outcome.parser.actions[i].option_strings[j] # <<"-","-">> \o name
         /\ \A i \in 1..Len(outcome.direct_arg_strings) :
              ~StartsWith(outcome.direct_arg_strings[i], RecordPrefix(name))
         /\ Cardinality(RecordParams(self)) = 1 =>
              /\ outcome.direct_arg_strings = KeepAt(toks, (1..Len(toks)) \ routed, 1)
              /\ outcome.sub_argstrings[name] = [i \in 1..Len(sub) |-> Unprefixed(sub[i], name)]

\* greet_persion parsed from ['Hi', '--person.name', 'Su']: the flat parser
\* gets ['--greeting=Hi'], the nested parser ['--name', 'Su'].
C3_Witness ==
  /\ Done
  /\ self = P_greet
  /\ args = << <<"H","i">>, RecordPrefix(n_person) \o n_name, <<"S","u">> >>
  /\ outcome.direct_arg_strings = << Named(n_greeting, <<"H","i">>) >>
  /\ outcome.sub_argstrings[n_person] = << <<"-","-">> \o n_name, <<"S","u">> >>

\* The flat parser's tokens that supply the parameter name by its long option.
Supplies(tok, name) ==
  tok = <<"-","-">> \o name \/ StartsWith(tok, <<"-","-">> \o name \o <<"=">>)

\* C4: the keyword mapping parse_arg_string_and_remaining returns never holds
\* the NoValue placeholder: a parameter without a default that no token
\* supplies is absent from the mapping rather than bound to a placeholder.
C4_NoPlaceholderInKwargs ==
  (Done /\ outcome.exc = "none") =>
    /\ \A k \in DOMAIN outcome.kwargs : outcome.kwargs[k] # NoValue
    /\ \A i \in 1..Len(self.args) :
         ( /\ self.args[i].default = NoValue
           /\ ~attr_has(self.args[i].type)
           /\ \A j \in 1..Len(outcome.direct_arg_strings) :
                ~Supplies(outcome.direct_arg_strings[j], self.args[i].name) )
         => self.args[i].name \notin DOMAIN outcome.kwargs

\* compute_a_minus_b parsed from ['4']: the mapping is {a: 4.0}, without b.
C4_Witness ==
  /\ pc = "parsed"
  /\ self = P_minus
  /\ args = << <<"4">> >>
  /\ outcome.exc = "none"
  /\ outcome.kwargs = (n_a :> VFlt(4, 0))

\* The positions of the --negate tokens, bare or with =<v>.
NegatePositions == {i \in 1..Len(args) : Supplies(args[i], n_negate)}

\* The other tokens supply number and nothing else: --number=3 anywhere, or
\* the value 3 in first position.
NumberOnlyElsewhere ==
  /\ \A i \in (1..Len(args)) \ NegatePositions :
       args[i] = Named(n_number, <<"3">>) \/ (i = 1 /\ args[i] = <<"3">>)
  /\ (1..Len(args)) \ NegatePositions # {}

\* C2: for maybe_negate(number: int, negate: bool = False) called through
\* call_from_command_line, a bare --negate that ends the list or is followed
\* by another flag gives negate = True; --negate=<v> gives True for v
\* (case-insensitive) in {yes, true, t, y, 1}, False for v in {no, false, f,
\* n, 0}, and fails with AutoArgParserError, the callable not run, for any
\* other v; without a --negate token negate is False.
C2_BooleanFlag ==
  ( /\ pc = "called" /\ ~allow_remaining
    /\ self.function = maybe_negate
    /\ Cardinality(NegatePositions) <= 1
    /\ NumberOnlyElsewhere )
  => LET Called(b) ==
           /\ outcome.exc = "none"
           /\ outcome.invoked = 1
           /\ outcome.kwargs[n_negate] = VBool(b)
           /\ outcome.return_val =
                VCall(maybe_negate, (n_number :> VInt(3) @@ n_negate :> VBool(b)))
         Rejected ==
           /\ outcome.exc = "AutoArgParserError"
           /\ outcome.invoked = 0
     IN IF NegatePositions = {} THEN Called(FALSE)
        ELSE LET i == CHOOSE j \in NegatePositions : TRUE
                 v == SubSeq(args[i], Len(n_negate) + 4, Len(args[i]))
             IN IF args[i] = <<"-","-">> \o n_negate
                THEN (i = Len(args) \/ IsFlagKey(args[i + 1])) => Called(TRUE)
                ELSE IF Lower(v) \in {<<"y","e","s">>, <<"t","r","u","e">>, <<"t">>, <<"y">>, <<"1">>}
                THEN Called(TRUE)
                ELSE IF Lower(v) \in {<<"n","o">>, <<"f","a","l","s","e">>, <<"f">>, <<"n">>, <<"0">>}
                THEN Called(FALSE)
                ELSE Rejected

\* maybe_negate called with ['--negate', '--number=3']: the bare flag is
\* followed by another flag and negate is True.
C2_Witness ==
  /\ pc = "called" /\ ~allow_remaining
  /\ self = P_negate
  /\ args = << <<"-","-">> \o n_negate, Named(n_number, <<"3">>) >>
  /\ outcome.invoked = 1
  /\ outcome.kwargs[n_negate] = VBool(TRUE)

\* The part of a token that names its flag: the token up to its first '='.
FlagPart(tok) == IF Contains(tok, "=") THEN SubSeq(tok, 1, Find(tok, "=") - 1) ELSE tok

\* The actions of the flat parser that a flag-like token selects: those with
\* an option string equal to the token's flag part or, failing that, those
\* with a long option string the flag part abbreviates.
SelectedActions(parser, tok) ==
  LET exact == {i \in 1..Len(parser.actions) :
                  \E j \in 1..Len(parser.actions[i].option_strings) :
                     parser.actions[i].option_strings[j] = FlagPart(tok)}
      abbreviated == {i \in 1..Len(parser.actions) :
                        \E j \in 1..Len(parser.actions[i].option_strings) :
                           /\ StartsWith(tok, <<"-","-">>)
                           /\ StartsWith(parser.actions[i].option_strings[j], FlagPart(tok))}
  IN IF exact # {} THEN exact ELSE abbreviated

\* A token the flat parser reads as a flag rather than as a value.
IsFlagLike(tok) ==
  /\ Len(tok) > 1
  /\ tok[1] = "-"
  /\ \E i \in 2..Len(tok) : tok[i] \notin (Digits \cup {"."})

\* A bare flag (no =<value>) of an action that takes the next token as its value.
TakesNextToken(parser, tok) ==
  /\ IsFlagLike(tok)
  /\ ~Contains(tok, "=")
  /\ \E i \in SelectedActions(parser, tok) : parser.actions[i].kind = "store"

\* The positions of the tokens the flat parser leaves unconsumed: the
\* flag-like tokens that match no registered flag, and the values that do
\* not follow a flag taking them.
Unconsumed(parser, toks) ==
  {i \in 1..Len(toks) :
     IF IsFlagLike(toks[i]) THEN SelectedActions(parser, toks[i]) = {}
     ELSE ~(i > 1 /\ TakesNextToken(parser, toks[i-1]))}

HoldsHelp(toks) == \E i \in 1..Len(toks) : toks[i] \in {tok_help, tok_h}

\* What C5 says of the allow_remaining mode, and of a strict parse that succeeds.
RemainingReturned ==
  /\ (Done /\ allow_remaining /\ outcome.exc = "none")
       => outcome.remaining =
            KeepAt(outcome.direct_arg_strings,
                   Unconsumed(outcome.parser, outcome.direct_arg_strings), 1)
  /\ (Done /\ allow_remaining /\ outcome.flat_status # "not run")
       => outcome.msg_diag # "unrecognized arguments"
  /\ (Done /\ ~allow_remaining /\ outcome.exc = "none")
       => /\ outcome.remaining = <<>>
          /\ Unconsumed(outcome.parser, outcome.direct_arg_strings) = {}

\* A strict call whose flat parser is handed a token it leaves unconsumed.
StrictWithUnconsumed ==
  /\ pc = "called" /\ ~allow_remaining
  /\ outcome.flat_status # "not run"
  /\ Unconsumed(outcome.parser, outcome.direct_arg_strings) # {}

C6_HelpExitsZero ==
  (pc = "called" /\ ~allow_remaining /\ HoldsHelp(args) /\ args[1] \in {tok_help, tok_h})
    => /\ outcome.exc = "SystemExit"
       /\ outcome.code = 0
       /\ outcome.invoked = 0

\* C7 as stated: when the flat parser rejects the tokens, SystemExit does not
\* escape parse_arg_string_and_remaining; with raise_deep_exceptions off the
\* parse fails with AutoArgParserError carrying the captured diagnostic, with
\* raise_deep_exceptions on the native error passes through, not wrapped in
\* AutoArgParserError.
C7_RejectionReporting ==
  (Done /\ outcome.flat_status = "exit2")
    => /\ outcome.exc # "SystemExit"
       /\ ~self.raise_deep_exceptions
            => outcome.exc = "AutoArgParserError" /\ outcome.msg_diag # "none"
       /\ self.raise_deep_exceptions => outcome.exc # "AutoArgParserError"

\* The parameters of the flat parser that have no default and that no token
\* of the promoted list supplies.
MissingRequired ==
  {i \in 1..Len(self.args) :
     /\ self.args[i].default = NoValue
     /\ ~attr_has(self.args[i].type)
     /\ \A j \in 1..Len(outcome.arg_strings) :
          ~Supplies(outcome.arg_strings[j], self.args[i].name)}

\* C8 as stated, for call_from_command_line: when a parameter has no default
\* and no token supplies it, the call fails with AutoArgParserError whose
\* message includes the attempted token list, and the callable is not run.
C8_MissingRequiredReported ==
  ( /\ pc = "called" /\ ~allow_remaining
    /\ outcome.flat_status = "ok"
    /\ MissingRequired # {} )
  => /\ outcome.exc = "AutoArgParserError"
     /\ outcome.msg_args = outcome.arg_strings
     /\ outcome.invoked = 0

\* The arms of a Union annotation whose converter succeeds on the string.
SucceedingArms(annotation, string) ==
  {i \in 1..Len(get_args(annotation)) :
     get_appropriate_type_converter(get_args(annotation)[i], string).exc = "none"}

HasNullArm(annotation) ==
  \E i \in 1..Len(get_args(annotation)) : get_args(annotation)[i] = T("NoneType")

\* C10: the converter of a Union annotation returns None when the string is
\* exactly 'None' and one arm is the null type; otherwise it returns what the
\* first arm, in declared order, whose converter succeeds on the whole string
\* returns, and fails when no arm succeeds. For Union[int, float,
\* Sequence[int]]: '54' gives int 54, '3.14' gives float 3.14 and '54,32,23'
\* gives the list [54, 32, 23].
C10_UnionFirstArm ==
  /\ (pc = "converted" /\ get_origin(type_annotation) = "Union") =>
       LET ok == SucceedingArms(type_annotation, string_rep)
           first == CHOOSE i \in ok : \A j \in ok : i <= j
       IN IF string_rep = <<"N","o","n","e">> /\ HasNullArm(type_annotation)
          THEN converted = Ok(VNone)
          ELSE IF ok = {} THEN converted.exc = "AutoArgParserError"
          ELSE converted =
                 get_appropriate_type_converter(get_args(type_annotation)[first], string_rep)
  /\ (pc = "converted" /\ type_annotation = U_int_float_seq) =>
       /\ string_rep = <<"5","4">> => converted = Ok(VInt(54))
       /\ string_rep = <<"3",".","1","4">> => converted = Ok(VFlt(314, -2))
       /\ string_rep = <<"5","4",",","3","2",",","2","3">>
            => converted = Ok(VList(<<VInt(54), VInt(32), VInt(23)>>))

\* Union[int, float, Sequence[int]] on '54,32,23': the int and float arms
\* fail, the sequence arm gives [54, 32, 23].
C10_Witness ==
  /\ pc = "converted"
  /\ type_annotation = U_int_float_seq
  /\ string_rep = <<"5","4",",","3","2",",","2","3">>
  /\ SucceedingArms(type_annotation, string_rep) = {3}
  /\ converted = Ok(VList(<<VInt(54), VInt(32), VInt(23)>>))

\* The value belongs to the type the annotation names.
RECURSIVE ValueOfType(_, _)
ValueOfType(v, annotation) ==
  IF get_origin(annotation) = "Union"
  THEN \E i \in 1..Len(get_args(annotation)) : ValueOfType(v, get_args(annotation)[i])
  ELSE IF get_origin(annotation) \in {"Sequence", "List"}
  THEN v.t = "list" /\ \A i \in 1..Len(v.l) : ValueOfType(v.l[i], get_args(annotation)[1])
  ELSE v.t = get_origin(annotation)

\* The arm of a union can convert the string: the null arm accepts only the
\* literal 'None', any other arm what its converter accepts.
ArmAccepts(arm, string) ==
  IF arm = T("NoneType") THEN string = <<"N","o","n","e">>
  ELSE get_appropriate_type_converter(arm, string).exc = "none"

\* C11 as stated: for every Union annotation, Optional[T] included, a string
\* that none of the arms can convert (the null arm accepting only 'None')
\* makes the converter fail with AutoArgParserError, and the converter never
\* returns a value whose type is outside the union's arms.
C11_UnionFailsOutsideArms ==
  (pc = "converted" /\ get_origin(type_annotation) = "Union") =>
    /\ (\A i \in 1..Len(get_args(type_annotation)) :
          ~ArmAccepts(get_args(type_annotation)[i], string_rep))
         => converted.exc = "AutoArgParserError"
    /\ converted.exc = "none" => ValueOfType(converted.v, type_annotation)

(***************************************************************************)
(* The mapping converters as pure functions.                               *)
(***************************************************************************)
MappingAnnotations ==
  { TGeneric("Dict", <<T("str"), T("int")>>),
    TMapping(T("str"), T("str")),
    TMapping(T("str"), TSequence(T("int"))),
    TMapping(T("str"), TMapping(T("str"), T("int"))) }

MappingPieces ==
  { <<"a",":","3">>, <<",","b",":","4">>, <<"a",":">>, <<"x">>, <<"[","1","]">>,
    <<"[","3",",","4","]">>, <<"{","d",":","3",",","e",":","4","}">>, <<":">>, <<"[">> }

MappingStrings == {Concat(ps) : ps \in ListsUpTo(MappingPieces, MaxPieces)}

InitMapping ==
  /\ pc = "ready"
  /\ self = P_minus
  /\ args = <<>>
  /\ allow_remaining = FALSE
  /\ outcome = NoOutcome
  /\ type_annotation \in MappingAnnotations
  /\ string_rep \in MappingStrings
  /\ converted = NoOutcome

SpecMapping == InitMapping /\ [][NextConvert]_vars

(***************************************************************************)
(* Bracket nesting, defined from the text alone: the brackets open after a *)
(* prefix, the positions at depth 0, and the pieces between positions.     *)
(***************************************************************************)
\* the brackets still open after one more character; <<"!">> marks a
\* closer that matches no opener
OpenAfterChar(open, c) ==
  IF open = <<"!">> THEN open
  ELSE IF c \in {"[", "{", "(", "<"} THEN Append(open, c)
  ELSE IF c \in {"]", "}", ")", ">"}
  THEN IF open # <<>> /\ <<open[Len(open)], c>> \in
                           {<<"[","]">>, <<"{","}">>, <<"(",")">>, <<"<",">">>}
       THEN SubSeq(open, 1, Len(open) - 1)
       ELSE <<"!">>
  ELSE open

\* the brackets still open after the first n characters of the text
RECURSIVE OpenAfter(_, _)
OpenAfter(text, n) ==
  IF n = 0 THEN <<>> ELSE OpenAfterChar(OpenAfter(text, n - 1), text[n])

WellNested(text) == OpenAfter(text, Len(text)) = <<>>

\* the depth of the character at position i: a closer counts with its pair
DepthAt(text, i) ==
  IF text[i] \in {"]", "}", ")", ">"} THEN Len(OpenAfter(text, i - 1))
  ELSE Len(OpenAfter(text, i))

\* the positions of the character c outside every bracket pair
TopLevel(text, c) == {i \in 1..Len(text) : text[i] = c /\ OpenAfter(text, i - 1) = <<>>}

\* the pieces of the text between the positions of cuts
RECURSIVE CutAt(_, _)
CutAt(text, cuts) ==
  IF cuts = {} THEN <<text>>
  ELSE LET k == CHOOSE i \in cuts : \A j \in cuts : i <= j
       IN <<SubSeq(text, 1, k - 1)>>
          \o CutAt(SubSeq(text, k + 1, Len(text)), {c - k : c \in cuts \ {k}})

\* the text is wrapped in one bracket pair: its first character opens the
\* pair its last character closes
Wrapped(text) ==
  /\ Len(text) >= 2
  /\ WellNested(text)
  /\ \A n \in 1..(Len(text) - 1) : OpenAfter(text, n) # <<>>

\* the text without the one bracket pair that wraps it, if any
Unwrapped(text) == IF Wrapped(text) THEN SubSeq(text, 2, Len(text) - 1) ELSE text

\* a piece of a mapping string at its first top-level colon
LeftOfColon(piece) ==
  SubSeq(piece, 1, (CHOOSE i \in TopLevel(piece, ":") : \A j \in TopLevel(piece, ":") : i <= j) - 1)
RightOfColon(piece) ==
  SubSeq(piece, (CHOOSE i \in TopLevel(piece, ":") : \A j \in TopLevel(piece, ":") : i <= j) + 1,
         Len(piece))

\* the mapping built from converted keys and values, in encounter order
RECURSIVE MappingOf(_, _)
MappingOf(keys, values) ==
  IF keys = <<>> THEN <<>>
  ELSE DictPut(MappingOf(SubSeq(keys, 1, Len(keys) - 1), SubSeq(values, 1, Len(values) - 1)),
               keys[Len(keys)].v, values[Len(values)].v)

\* C12 as stated, for well-nested strings: the converter of Mapping[K, V]
\* splits the string on top-level commas and each piece on its first
\* top-level colon (one bracket pair wrapping the value is stripped); it
\* fails with AutoArgParserError when a piece has no top-level colon, and
\* otherwise returns the mapping, in encounter order, of resolve(K) of the
\* left parts to resolve(V) of the right parts.
C12_MappingConverter ==
  ( /\ pc = "converted"
    /\ get_origin(type_annotation) \in {"Mapping", "Dict"}
    /\ WellNested(string_rep) ) =>
    LET pieces == CutAt(string_rep, TopLevel(string_rep, ","))
        keys == [i \in 1..Len(pieces) |->
                   get_appropriate_type_converter(get_args(type_annotation)[1],
                                                  LeftOfColon(pieces[i]))]
        values == [i \in 1..Len(pieces) |->
                     get_appropriate_type_converter(get_args(type_annotation)[2],
                                                    Unwrapped(RightOfColon(pieces[i])))]
    IN IF \E i \in 1..Len(pieces) : TopLevel(pieces[i], ":") = {}
       THEN converted.exc = "AutoArgParserError"
       ELSE IF \E i \in 1..Len(pieces) : keys[i].exc # "none" \/ values[i].exc # "none"
       THEN converted.exc # "none"
       ELSE converted = Ok(VDict(MappingOf(keys, values)))

\* C13 as stated, for well-nested strings: the converter of Sequence[T] and
\* List[T] returns the list, in input order, of resolve(T) applied to each
\* top-level comma-separated segment with one enclosing bracket pair
\* stripped, and fails when an element fails to convert.
C13_SequenceConverter ==
  ( /\ pc = "converted"
    /\ get_origin(type_annotation) \in {"Sequence", "List"}
    /\ WellNested(string_rep) ) =>
    LET segments == CutAt(string_rep, TopLevel(string_rep, ","))
        elements == [i \in 1..Len(segments) |->
                       get_appropriate_type_converter(get_args(type_annotation)[1],
                                                      Unwrapped(segments[i]))]
    IN IF \E i \in 1..Len(segments) : elements[i].exc # "none"
       THEN converted.exc # "none"
       ELSE converted = Ok(VList([i \in 1..Len(segments) |-> elements[i].v]))

(***************************************************************************)
(* The tuple converter, called directly and inside call_from_command_line. *)
(***************************************************************************)
n_arg == <<"a","r","g">>

\* def identity_tuple(arg: Tuple[int, int])
identity_tuple ==
  [name |-> "identity_tuple", kind |-> "function",
   args |-> <<n_arg>>, defaults |-> <<>>,
   annotations |-> (n_arg :> TTuple(<<T("int"), T("int")>>))]

P_tuple == AutoArgParser(identity_tuple, NoShortNames, FALSE)

TupleAnnotations ==
  { TTuple(<<T("int"), T("int")>>), TTuple(<<T("int"), T("float"), T("str")>>) }

TupleStrings ==
  { <<>>, <<"1">>, <<"1",",","2">>, <<"1",",","2",",","3">>, <<"x",",","2">>,
    <<"1",",","x">>, <<",">>, <<"1",",","2",".","5",",","x">>, <<"1",",","2",",","3",",","4">> }

TupleTokens ==
  { <<"1">>, <<"1",",","2">>, <<"1",",","2",",","3">>, <<"x",",","2">>,
    Named(n_arg, <<"1",",","2">>), Named(n_arg, <<"1">>) }

InitTuple ==
  /\ pc = "ready"
  /\ self = P_tuple
  /\ args \in ListsUpTo(TupleTokens, MaxLen - 1)
  /\ allow_remaining = FALSE
  /\ outcome = NoOutcome
  /\ type_annotation \in TupleAnnotations
  /\ string_rep \in TupleStrings
  /\ converted = NoOutcome

NextTuple ==
  \/ ConvertString
  \/ CallFromCommandLine

SpecTuple == InitTuple /\ [][NextTuple]_vars

\* the value a one-token list hands to the parameter arg
TupleValueOf(tok) ==
  IF StartsWith(tok, Named(n_arg, <<>>)) THEN SubSeq(tok, Len(n_arg) + 4, Len(tok)) ELSE tok

\* C14 as stated: the converter of Tuple[T1..Tn] splits the string on commas
\* and converts part i with resolve(Ti); when the number of parts differs
\* from n it fails with AutoArgParserError, both when the converter is
\* called directly and when it runs inside call_from_command_line.
C14_TupleConverter ==
  /\ (pc = "converted" /\ get_origin(type_annotation) = "Tuple") =>
       LET parts == CutAt(string_rep, {i \in 1..Len(string_rep) : string_rep[i] = ","})
           elements == [i \in 1..Len(get_args(type_annotation)) |->
                          get_appropriate_type_converter(get_args(type_annotation)[i], parts[i])]
       IN IF Len(parts) # Len(get_args(type_annotation))
          THEN converted.exc = "AutoArgParserError"
          ELSE IF \E i \in 1..Len(parts) : elements[i].exc # "none"
          THEN converted.exc # "none"
          ELSE converted = Ok(VTuple([i \in 1..Len(parts) |-> elements[i].v]))
  /\ (pc = "called" /\ self = P_tuple /\ Len(args) = 1) =>
       LET parts == CutAt(TupleValueOf(args[1]),
                          {i \in 1..Len(TupleValueOf(args[1])) : TupleValueOf(args[1])[i] = ","})
       IN Len(parts) # 2 => outcome.exc = "AutoArgParserError"

(***************************************************************************)
(* parse_string_guessing_type, reached through the converter of Any.       *)
(***************************************************************************)
GuessPieces ==
  { <<"5">>, <<"1","2">>, <<".">>, <<"-">>, NoneChars, <<"T","R","U","E">>,
    <<"f","a","l","s","e">>, <<"'">>, <<"\"">>, <<"x">>, <<" ">> }

GuessStrings == {Concat(ps) : ps \in ListsUpTo(GuessPieces, MaxPieces)}

InitGuess ==
  /\ pc = "ready"
  /\ self = P_minus
  /\ args = <<>>
  /\ allow_remaining = FALSE
  /\ outcome = NoOutcome
  /\ type_annotation = T("Any")
  /\ string_rep \in GuessStrings
  /\ converted = NoOutcome

SpecGuess == InitGuess /\ [][NextConvert]_vars

\* made only of digits and '.', after one optional leading '-'
FloatShaped(s) ==
  LET body == IF s # <<>> /\ s[1] = "-" THEN Tail(s) ELSE s
  IN \A i \in 1..Len(body) : body[i] \in Digits \cup {"."}

\* C15 as stated: parse_string_guessing_type returns a value for every
\* input string, by the first rule that applies: digits only, an int; only
\* digits, '.' and one optional leading '-', a float; 'none' in any case,
\* null; 'true'/'false' in any case, the boolean; starting with a quote, the
\* unquoted content; anything else, the raw string unchanged.
C15_GuessingReturnsAValue ==
  (pc = "converted" /\ type_annotation = T("Any")) =>
    /\ converted.exc = "none"
    /\ IF IsDigits(string_rep) THEN converted.v = VInt(DigitsVal(string_rep))
       ELSE IF FloatShaped(string_rep) THEN converted.v.t = "float"
       ELSE IF Lower(string_rep) = <<"n","o","n","e">> THEN converted.v = VNone
       ELSE IF Lower(string_rep) = <<"t","r","u","e">> THEN converted.v = VBool(TRUE)
       ELSE IF Lower(string_rep) = <<"f","a","l","s","e">> THEN converted.v = VBool(FALSE)
       ELSE IF string_rep[1] \in {"'", "\""} THEN converted.v = VStr(Strip(string_rep, {"'", "\""}))
       ELSE converted.v = VStr(string_rep)

(***************************************************************************)
(* AutoArgParsingSwitch: the first token selects an entry of named_funcs,  *)
(* the tokens after it go to the entry's call_from_command_line.           *)
(***************************************************************************)
n_print_output == <<"p","r","i","n","t","_","o","u","t","p","u","t">>

\* def add(a: float, b: float, print_output=False)
add ==
  [name |-> "add", kind |-> "function",
   args |-> <<n_a, n_b, n_print_output>>, defaults |-> <<VBool(FALSE)>>,
   annotations |-> (n_a :> T("float")) @@ (n_b :> T("float"))]

\* def mul(a: float, b: float, print_output=True)
mul ==
  [name |-> "mul", kind |-> "function",
   args |-> <<n_a, n_b, n_print_output>>, defaults |-> <<VBool(TRUE)>>,
   annotations |-> (n_a :> T("float")) @@ (n_b :> T("float"))]

k_add == <<"a","d","d">>
k_mul == <<"m","u","l">>

\* named_funcs keeps its insertion order: a sequence of (key, func) entries
AutoArgParsingSwitch(named_funcs) == [named_funcs |-> named_funcs]

\* AutoArgParsingSwitch({'add': add, 'mul': mul})
board == AutoArgParsingSwitch(<<[key |-> k_add, func |-> add], [key |-> k_mul, func |-> mul]>>)

\* the same switch with ready-made parsers as entries
board_of_parsers ==
  AutoArgParsingSwitch(<<[key |-> k_add, func |-> AutoArgParser(add, NoShortNames, FALSE)],
                         [key |-> k_mul, func |-> AutoArgParser(mul, NoShortNames, FALSE)]>>)

Switches == {board, board_of_parsers}

SwitchVocabulary ==
  { k_add, k_mul, <<"d","i","v">>, <<"a","d">>, <<"3">>, <<"4">>, <<"-","-">> \o n_print_output }

\* list(self.named_funcs)
Options(switch) == [i \in 1..Len(switch.named_funcs) |-> switch.named_funcs[i].key]

\* self.named_funcs[func_str]
NamedFunc(switch, func_str) ==
  switch.named_funcs[CHOOSE i \in 1..Len(switch.named_funcs) : switch.named_funcs[i].key = func_str].func

\* isinstance(func, AutoArgParser)
IsAutoArgParser(func) == "function" \in DOMAIN func

\* raise AutoArgParserError(f"... {list(self.named_funcs)}")
SwitchError(switch) ==
  [exc |-> "AutoArgParserError", options |-> Options(switch),
   return_val |-> NoValue, invoked |-> 0]

\* func.call_from_command_line(arg_strings=rest), func wrapped when it is a bare callable
SwitchDelegate(func, func_str, rest) ==
  call_from_command_line(IF IsAutoArgParser(func) THEN func
                         ELSE AutoArgParser(func, NoShortNames, FALSE), rest)
    @@ [options |-> <<>>, func_str |-> func_str, delegated |-> rest]

\* A faulty dispatch, which hands the entry the whole token list.
Switch_call_from_command_line_whole(switch, arg_strings) ==
  IF Len(arg_strings) = 0 THEN SwitchError(switch)
  ELSE IF \A i \in 1..Len(switch.named_funcs) : switch.named_funcs[i].key # arg_strings[1]
  THEN SwitchError(switch)
  ELSE SwitchDelegate(NamedFunc(switch, arg_strings[1]), arg_strings[1], arg_strings)

\* AutoArgParsingSwitch.call_from_command_line
Switch_call_from_command_line(switch, arg_strings) ==
  IF Len(arg_strings) = 0 THEN SwitchError(switch)
  ELSE IF \A i \in 1..Len(switch.named_funcs) : switch.named_funcs[i].key # arg_strings[1]
  THEN SwitchError(switch)
  ELSE SwitchDelegate(NamedFunc(switch, arg_strings[1]), arg_strings[1], Tail(arg_strings))

SwitchCallFromCommandLine ==
  /\ pc = "ready"
  /\ pc' = "dispatched"
  /\ outcome' = Switch_call_from_command_line(self, args)
  /\ UNCHANGED <<self, args, allow_remaining>>
  /\ UNCHANGED converter_vars

InitSwitch ==
  /\ pc = "ready"
  /\ self \in Switches
  /\ args \in ListsUpTo(SwitchVocabulary, MaxLen)
  /\ allow_remaining = FALSE
  /\ outcome = NoOutcome
  /\ type_annotation = T("str")
  /\ string_rep = <<>>
  /\ converted = NoOutcome

NextSwitch == SwitchCallFromCommandLine

SpecSwitch == InitSwitch /\ [][NextSwitch]_vars

\* the parser an entry stands for
EntryParser(func) ==
  IF IsAutoArgParser(func) THEN func ELSE AutoArgParser(func, NoShortNames, FALSE)

\* C16: the switch fails with AutoArgParserError listing the registered
\* names, and runs none of the registered callables, when the token list is
\* empty or its first token is not a registered name; otherwise it calls
\* exactly the entry registered under the first token, in strict mode, with
\* the tokens after the first unchanged and in order.
C16_SwitchDispatch ==
  pc = "dispatched" =>
    LET keys == {self.named_funcs[i].key : i \in 1..Len(self.named_funcs)}
    IN IF args = <<>> \/ args[1] \notin keys
       THEN /\ outcome.exc = "AutoArgParserError"
            /\ outcome.options = [i \in 1..Len(self.named_funcs) |-> self.named_funcs[i].key]
            /\ outcome.invoked = 0
       ELSE LET entry == (CHOOSE e \in {self.named_funcs[i] : i \in 1..Len(self.named_funcs)} :
                            e.key = args[1]).func
                strict == call_from_command_line(EntryParser(entry), Tail(args))
            IN /\ outcome.func_str = args[1]
               /\ outcome.delegated = Tail(args)
               /\ [f \in DOMAIN strict |-> outcome[f]] = strict
               /\ outcome.invoked = 1 =>
                    /\ outcome.return_val.t = EntryParser(entry).function.name
                    /\ outcome.remaining = <<>>

\* the switch ran mul on the two tokens after its name
C16_Witness ==
  /\ pc = "dispatched"
  /\ args = <<k_mul, <<"3">>, <<"4">>>>
  /\ outcome.invoked = 1
  /\ outcome.return_val.t = "mul"

(***************************************************************************)
(* AutoArgParser.__init__ with its override mappings.  An optional mapping *)
(* is <<>> for None and <<m>> for the mapping m; here self holds the       *)
(* arguments __init__ receives and outcome what the construction gives.    *)
(***************************************************************************)
n_kwargs == <<"k","w","a","r","g","s">>
n_zzz == <<"z","z","z">>

\* def with_kwargs(a: float, **kwargs)
with_kwargs ==
  [name |-> "with_kwargs", kind |-> "function",
   args |-> <<n_a>>, defaults |-> <<>>,
   annotations |-> (n_a :> T("float")), varkw |-> n_kwargs]

\* inspect.getfullargspec(function).varkw, <<>> for None
Varkw(function) == IF "varkw" \in DOMAIN function THEN function.varkw ELSE <<>>

\* set(mapping).issubset(spec.args)
KeysAreArgs(mapping, function) ==
  DOMAIN mapping \subseteq {function.args[i] : i \in 1..Len(function.args)}

\* default if default_overrides is None or name not in default_overrides else default_overrides[name]
OverrideDefault(argspec, default_overrides) ==
  IF default_overrides # <<>> /\ argspec.name \in DOMAIN default_overrides[1]
  THEN [argspec EXCEPT !.default = default_overrides[1][argspec.name]]
  ELSE argspec

OverrideDefaults(argspecs, default_overrides) ==
  [i \in 1..Len(argspecs) |-> OverrideDefault(argspecs[i], default_overrides)]

\* the instance __init__ leaves behind
Constructed(function, arg_converters, default_overrides, short_names) ==
  [exc |-> "none",
   function |-> function,
   short_names |-> IF short_names = <<>> THEN NoShortNames ELSE short_names[1],
   arg_converters |-> IF arg_converters = <<>> THEN NoShortNames ELSE arg_converters[1],
   raise_deep_exceptions |-> FALSE,
   args |-> OverrideDefaults(BuildArgSpecs(function), default_overrides)]

\* AutoArgParser.__init__(function, arg_converters, default_overrides, short_names)
AutoArgParser_init(function, arg_converters, default_overrides, short_names) ==
  IF /\ Varkw(function) = <<>>
     /\ short_names # <<>>
     /\ ~KeysAreArgs(short_names[1], function)
  THEN [exc |-> "AssertionError"]
  ELSE IF /\ Varkw(function) = <<>>
          /\ arg_converters # <<>>
          /\ ~KeysAreArgs(arg_converters[1], function)
  THEN [exc |-> "AssertionError"]
  ELSE Constructed(function, arg_converters, default_overrides, short_names)

\* the optional mappings handed to __init__, with values from V
OptionalMappings(V) ==
  {<<>>} \cup {<<m>> : m \in UNION {[K -> V] : K \in SUBSET {n_a, n_zzz}}}

InitConstruct ==
  /\ pc = "ready"
  /\ self \in [function : {compute_a_minus_b, with_kwargs},
               arg_converters : OptionalMappings({"int"}),
               default_overrides : OptionalMappings({VFlt(1, 0)}),
               short_names : OptionalMappings({<<"s">>})]
  /\ args = <<>>
  /\ allow_remaining = FALSE
  /\ outcome = NoOutcome
  /\ type_annotation = T("str")
  /\ string_rep = <<>>
  /\ converted = NoOutcome

\* AutoArgParser(function, arg_converters=..., default_overrides=..., short_names=...)
Construct ==
  /\ pc = "ready"
  /\ pc' = "constructed"
  /\ outcome' = AutoArgParser_init(self.function, self.arg_converters,
                                   self.default_overrides, self.short_names)
  /\ UNCHANGED <<self, args, allow_remaining>>
  /\ UNCHANGED converter_vars

NextConstruct == Construct

SpecConstruct == InitConstruct /\ [][NextConstruct]_vars

\* the keys of an optional mapping
KeysOf(optional_mapping) ==
  IF optional_mapping = <<>> THEN {} ELSE DOMAIN optional_mapping[1]

\* C17 as stated: for a callable without a catch-all keyword parameter the
\* construction fails whenever a key of default_overrides, arg_converters or
\* short_names is not a parameter of the callable; for a callable with a
\* catch-all keyword parameter no key is validated and construction succeeds.
C17_ConstructorValidation ==
  pc = "constructed" =>
    LET keys == KeysOf(self.default_overrides) \cup KeysOf(self.arg_converters)
                  \cup KeysOf(self.short_names)
        parameters == {self.function.args[i] : i \in 1..Len(self.function.args)}
    IN IF "varkw" \in DOMAIN self.function
       THEN outcome.exc = "none"
       ELSE ~(keys \subseteq parameters) => outcome.exc # "none"

(***************************************************************************)
(* separate_subargs_under_name as a function of its own: args holds the    *)
(* tokens, self the name and the optional short name it is called with.    *)
(***************************************************************************)
SeparateVocabulary ==
  { RecordPrefix(n_person) \o n_name, <<"S","u">>, <<"-","p",".","a","g","e">>, <<"3","0">>,
    <<"-","-">> \o n_greeting, <<"-","5">>, RecordPrefix(n_person) \o n_age \o <<"=","3","0">>,
    <<"-","p">> }

InitSeparate ==
  /\ pc = "ready"
  /\ self \in [name : {n_person}, short_name : {NoShort, << <<"p">> >>, << <<"q">> >>}]
  /\ args \in ListsUpTo(SeparateVocabulary, MaxLen)
  /\ allow_remaining = FALSE
  /\ outcome = NoOutcome
  /\ type_annotation = T("str")
  /\ string_rep = <<>>
  /\ converted = NoOutcome

\* separate_subargs_under_name(args, name, short_name)
SeparateSubargsUnderName ==
  /\ pc = "ready"
  /\ pc' = "separated"
  /\ outcome' = separate_subargs_under_name(args, self.name, self.short_name)
  /\ UNCHANGED <<self, args, allow_remaining>>
  /\ UNCHANGED converter_vars

NextSeparate == SeparateSubargsUnderName

SpecSeparate == InitSeparate /\ [][NextSeparate]_vars

\* a key token carrying the prefix --<name>. or -<short_name>.
RoutedKey(tok, name, short_name) ==
  /\ IsFlagKey(tok)
  /\ \/ StartsWith(tok, <<"-","-">> \o name \o <<".">>)
     \/ short_name # <<>> /\ StartsWith(tok, <<"-">> \o short_name[1] \o <<".">>)

\* the routed key with its prefix replaced by --
PrefixReplaced(tok, name) ==
  IF StartsWith(tok, <<"-","-">> \o name \o <<".">>)
  THEN <<"-","-">> \o SubSeq(tok, Len(name) + 4, Len(tok))
  ELSE <<"-","-">> \o SubSeq(tok, Find(tok, ".") + 1, Len(tok))

\* C18: separate_subargs_under_name partitions the tokens, keeping their
\* order in each output: sub_tokens gets the key tokens starting with
\* --<name>. or -<short_name>. (the prefix replaced by --) and the non-key
\* token directly following such a key, remaining_tokens gets every other
\* token unchanged.
C18_SeparateSubargs ==
  pc = "separated" =>
    LET keys == {i \in 1..Len(args) : RoutedKey(args[i], self.name, self.short_name)}
        values == {i \in 2..Len(args) : (i - 1) \in keys /\ ~IsFlagKey(args[i])}
        sub == KeepAt(args, keys \cup values, 1)
    IN /\ outcome.keepers =
            [i \in 1..Len(sub) |-> IF IsFlagKey(sub[i]) THEN PrefixReplaced(sub[i], self.name)
                                   ELSE sub[i]]
       /\ outcome.remainders = KeepAt(args, (1..Len(args)) \ (keys \cup values), 1)
       /\ Len(outcome.keepers) + Len(outcome.remainders) = Len(args)

\* ['-p.age', '30', 'Su'] under the name person, short name p: the first two
\* tokens are routed, the third is left
C18_Witness ==
  /\ pc = "separated"
  /\ self.short_name = << <<"p">> >>
  /\ args = << <<"-","p",".","a","g","e">>, <<"3","0">>, <<"S","u">> >>
  /\ outcome.keepers = << <<"-","-","a","g","e">>, <<"3","0">> >>
  /\ outcome.remainders = << <<"S","u">> >>

(***************************************************************************)
(* bracketed_split as a function of its own: string_rep holds the text,    *)
(* self the delimiter, strip_brackets and maxsplit it is called with, and  *)
(* outcome the segments the generator yielded and how it ended.            *)
(***************************************************************************)
SplitChars == {"a", ",", "(", ")", "]"}

SplitTexts == UNION {[1..k -> SplitChars] : k \in 0..(MaxPieces + 2)}

InitSplit ==
  /\ pc = "ready"
  /\ self \in [delimiter : {","}, strip_brackets : BOOLEAN,
               maxsplit : {<<>>, <<0>>, <<1>>, <<2>>}]
  /\ args = <<>>
  /\ allow_remaining = FALSE
  /\ outcome = NoOutcome
  /\ type_annotation = T("str")
  /\ string_rep \in SplitTexts
  /\ converted = NoOutcome

\* list(bracketed_split(string_rep, delimiter, strip_brackets, maxsplit))
BracketedSplit ==
  /\ pc = "ready"
  /\ pc' = "split"
  /\ outcome' = bracketed_split(string_rep, self.delimiter, self.strip_brackets, self.maxsplit)
  /\ UNCHANGED <<self, args, allow_remaining>>
  /\ UNCHANGED converter_vars

NextSplit == BracketedSplit

SpecSplit == InitSplit /\ [][NextSplit]_vars

\* C19 as stated: without maxsplit, well-nested text is split at exactly
\* its depth-0 delimiters, into 1 + (number of depth-0 delimiters) segments,
\* and every text, well nested or not, yields at least one segment.
C19_AlwaysOneSegment ==
  (pc = "split" /\ self.maxsplit = <<>>) =>
    /\ WellNested(string_rep) =>
         /\ Len(outcome.out) = 1 + Cardinality(TopLevel(string_rep, self.delimiter))
         /\ ~self.strip_brackets =>
              outcome.out = CutAt(string_rep, TopLevel(string_rep, self.delimiter))
    /\ Len(outcome.out) >= 1

\* C19, amended: without maxsplit, well-nested text is split at exactly its
\* depth-0 delimiters, into 1 + (number of depth-0 delimiters) segments, so
\* into at least one; text that is not well nested ends in an AssertionError
\* after the segments completed before the offending bracket, which may be
\* none at all.
C19_SplitAtDepthZero ==
  (pc = "split" /\ self.maxsplit = <<>>) =>
    IF WellNested(string_rep)
    THEN /\ outcome.err = "none"
         /\ Len(outcome.out) = 1 + Cardinality(TopLevel(string_rep, self.delimiter))
         /\ Len(outcome.out) >= 1
         /\ ~self.strip_brackets =>
              outcome.out = CutAt(string_rep, TopLevel(string_rep, self.delimiter))
    ELSE /\ outcome.err = "AssertionError"
         /\ Len(outcome.out) <= Cardinality(TopLevel(string_rep, self.delimiter))

\* 'a,(,)' is split at its first comma only
C19_Witness ==
  /\ pc = "split"
  /\ self.maxsplit = <<>>
  /\ ~self.strip_brackets
  /\ string_rep = <<"a", ",", "(", ",", ")">>
  /\ outcome.out = << <<"a">>, <<"(", ",", ")">> >>

\* C20 as stated: with strip_brackets, a depth-1 bracket pair is removed
\* from a segment only when it wraps the whole segment; a depth-1 pair
\* around part of a segment and every deeper bracket stay in the output.
C20_StripOnlyWrappingPair ==
  (pc = "split" /\ self.maxsplit = <<>> /\ self.strip_brackets /\ WellNested(string_rep)) =>
    LET segments == CutAt(string_rep, TopLevel(string_rep, self.delimiter))
    IN outcome.out = [i \in 1..Len(segments) |-> Unwrapped(segments[i])]

\* the text holds a closer that meets no open bracket, or an open bracket of
\* another kind, before any other such closer
OffendingCloser(text) ==
  \E n \in 1..Len(text) :
     /\ text[n] \in {"]", "}", ")", ">"}
     /\ OpenAfter(text, n - 1) # <<"!">>
     /\ \/ OpenAfter(text, n - 1) = <<>>
        \/ <<OpenAfter(text, n - 1)[Len(OpenAfter(text, n - 1))], text[n]>> \notin
             {<<"[","]">>, <<"{","}">>, <<"(",")">>, <<"<",">">>}

\* every closer met its opener, and an opener is still open at the end
UnclosedOpener(text) ==
  OpenAfter(text, Len(text)) \notin {<<>>, <<"!">>}

\* C21: consuming bracketed_split to its end fails, whatever strip_brackets
\* and maxsplit are, exactly when the text holds a closing bracket at depth
\* 0, a closing bracket of another kind than the innermost open bracket, or
\* an opener still unclosed at its end; for well-nested text it never fails.
C21_FailsIffIllNested ==
  pc = "split" =>
    /\ outcome.err # "none" <=> (OffendingCloser(string_rep) \/ UnclosedOpener(string_rep))
    /\ WellNested(string_rep) => outcome.err = "none"
    /\ outcome.err \in {"none", "AssertionError"}

\* '(,]' with strip_brackets and maxsplit 1: the closer is of another kind
C21_Witness ==
  /\ pc = "split"
  /\ self.strip_brackets
  /\ self.maxsplit = <<1>>
  /\ string_rep = <<"(", ",", "]">>
  /\ outcome.err = "AssertionError"

\* the k smallest members of a set of positions
RECURSIVE FirstOf(_, _)
FirstOf(positions, k) ==
  IF k = 0 \/ positions = {} THEN {}
  ELSE LET m == CHOOSE i \in positions : \A j \in positions : i <= j
       IN {m} \cup FirstOf(positions \ {m}, k - 1)

\* C22 as stated: with maxsplit = k a well-nested text gives at most k + 1
\* segments, the first k equal to the first k segments of the unlimited
\* split, and the last one is the entire rest of the text with its remaining
\* delimiters kept (less the one bracket pair wrapping it, when
\* strip_brackets is set).
C22_MaxsplitKeepsRest ==
  (pc = "split" /\ self.maxsplit # <<>> /\ WellNested(string_rep)) =>
    LET k == self.maxsplit[1]
        pieces == CutAt(string_rep, FirstOf(TopLevel(string_rep, self.delimiter), k))
        unlimited == bracketed_split(string_rep, self.delimiter, self.strip_brackets, <<>>).out
        n == Len(outcome.out)
    IN /\ n <= k + 1
       /\ n = Len(pieces)
       /\ \A i \in 1..(n - 1) : outcome.out[i] = unlimited[i]
       /\ outcome.out[n] = IF self.strip_brackets THEN Unwrapped(pieces[n]) ELSE pieces[n]

\* C22 for strip_brackets unset: the same, and then it holds.
C22_MaxsplitWithoutStrip ==
  (pc = "split" /\ self.maxsplit # <<>> /\ WellNested(string_rep) /\ ~self.strip_brackets) =>
    LET k == self.maxsplit[1]
        pieces == CutAt(string_rep, FirstOf(TopLevel(string_rep, self.delimiter), k))
    IN outcome.out = pieces /\ Len(outcome.out) <= k + 1

(***************************************************************************)
(* parse_single_arg: one argument registered with a parser of its own and  *)
(* parsed out of the tokens.  factory is <<>> for None and <<v>> for a     *)
(* factory returning v; self holds the arguments of the call next to args. *)
(***************************************************************************)
n_aaa == <<"a","a","a">>
n_bbb == <<"b","b","b">>
n_dddd == <<"d","d","d","d">>
n_eee == <<"e","e","e">>

\* what follows parser.parse_known_args(args), given how it ended
ParseSingleResult(arg_name, factory, flat) ==
  IF flat.status \in {"exit0", "exit2"}
  THEN [exc |-> "AutoArgParserError", arg_value |-> NoValue, remaining |-> <<>>]
  ELSE IF flat.status # "ok"
  THEN [exc |-> flat.status, arg_value |-> NoValue, remaining |-> <<>>]
  ELSE IF flat.ns[arg_name] # NoValue
  THEN [exc |-> "none", arg_value |-> flat.ns[arg_name], remaining |-> flat.extras]
  ELSE IF factory # <<>>
  THEN [exc |-> "none", arg_value |-> factory[1], remaining |-> flat.extras]
  ELSE [exc |-> "AutoArgParserError", arg_value |-> NoValue, remaining |-> <<>>]

\* the parse with the parser _add_arg_to_parser has filled
ParseSingleWith(parser, arg_strings, arg_name, factory) ==
  IF parser.exc # "none"
  THEN [exc |-> parser.exc, arg_value |-> NoValue, remaining |-> <<>>]
  ELSE ParseSingleResult(arg_name, factory, parse_known_args(parser, arg_strings))

\* parse_single_arg(args, arg_name, arg_type, default, factory, short_name)
parse_single_arg(arg_strings, arg_name, arg_type, default, factory, short_name) ==
  ParseSingleWith(
    add_arg_to_parser(ArgumentParser, arg_strings, arg_name, arg_type, default, short_name),
    arg_strings, arg_name, factory)

\* the calls of test_parse_single_arg, and some with a short name or a factory
SingleArgCalls ==
  { [arg_name |-> n_bbb, arg_type |-> T("NoValue"), default |-> NoValue, factory |-> <<>>, short_name |-> NoShort],
    [arg_name |-> n_aaa, arg_type |-> T("NoValue"), default |-> NoValue, factory |-> <<>>, short_name |-> NoShort],
    [arg_name |-> n_dddd, arg_type |-> T("bool"), default |-> NoValue, factory |-> <<>>, short_name |-> NoShort],
    [arg_name |-> n_dddd, arg_type |-> T("NoValue"), default |-> NoValue, factory |-> <<>>, short_name |-> NoShort],
    [arg_name |-> n_dddd, arg_type |-> T("NoValue"), default |-> VBool(FALSE), factory |-> <<>>, short_name |-> <<n_b>>],
    [arg_name |-> n_bbb, arg_type |-> T("str"), default |-> NoValue, factory |-> <<>>, short_name |-> NoShort],
    [arg_name |-> n_bbb, arg_type |-> T("int"), default |-> NoValue, factory |-> <<VInt(0)>>, short_name |-> NoShort],
    [arg_name |-> n_eee, arg_type |-> T("NoValue"), default |-> NoValue, factory |-> <<>>, short_name |-> NoShort],
    [arg_name |-> n_eee, arg_type |-> T("NoValue"), default |-> VFlt(7, 0), factory |-> <<>>, short_name |-> NoShort] }

SingleArgVocabulary ==
  { <<"-","-">> \o n_aaa, <<"5">>, <<"-","-">> \o n_bbb, <<"6">>, <<"-","-">> \o n_dddd,
    <<"F","a","l","s","e">>, <<"a","b","c">>, Named(n_bbb, <<"6">>), <<"-","b">>, tok_help }

InitSingle ==
  /\ pc = "ready"
  /\ self \in SingleArgCalls
  /\ args \in ListsUpTo(SingleArgVocabulary, MaxLen)
  /\ allow_remaining = FALSE
  /\ outcome = NoOutcome
  /\ type_annotation = T("str")
  /\ string_rep = <<>>
  /\ converted = NoOutcome

\* parse_single_arg(args, arg_name, arg_type, default, factory, short_name)
ParseSingleArg ==
  /\ pc = "ready"
  /\ pc' = "single"
  /\ outcome' = parse_single_arg(args, self.arg_name, self.arg_type, self.default,
                                 self.factory, self.short_name)
  /\ UNCHANGED <<self, args, allow_remaining>>
  /\ UNCHANGED converter_vars

NextSingle == ParseSingleArg

SpecSingle == InitSingle /\ [][NextSingle]_vars

\* the positions of the argument's own flag token: --<name>, --<name>=<value>,
\* or the same with -<short_name>
OwnFlags(toks, call) ==
  {i \in 1..Len(toks) :
     \/ toks[i] = <<"-","-">> \o call.arg_name
     \/ StartsWith(toks[i], <<"-","-">> \o call.arg_name \o <<"=">>)
     \/ /\ call.short_name # <<>>
        /\ \/ toks[i] = <<"-">> \o call.short_name[1]
           \/ StartsWith(toks[i], <<"-">> \o call.short_name[1] \o <<"=">>)}

\* the argument is of boolean type, declared or guessed from its default
IsBoolean(call) ==
  \/ call.arg_type = T("bool")
  \/ call.arg_type = T("NoValue") /\ call.default.t = "bool"

\* a bare flag token with no value after it
Valueless(toks, i) ==
  /\ ~Contains(toks[i], "=")
  /\ (i = Len(toks) \/ IsFlagKey(toks[i + 1]))

\* the positions of the value tokens the argument took: the token after a
\* bare own flag, unless that token is itself a flag
OwnValues(toks, call) ==
  {i \in 2..Len(toks) :
     /\ (i - 1) \in OwnFlags(toks, call)
     /\ ~Contains(toks[i - 1], "=")
     /\ ~IsFlagKey(toks[i])}

\* C23 as stated: parse_single_arg returns the converted value of the named
\* argument and, as remaining, the input tokens less the argument's flag
\* token (occurring once) and the value token it took, in their order; when the argument
\* does not occur and a default was given it returns the default and all
\* the input tokens; an untyped value is guessed from its form ('6' the int
\* 6, 'False' the boolean false) and a bool-typed flag without a value
\* gives True.
C23_ParseSingleArg ==
  pc = "single" =>
    LET flags == OwnFlags(args, self)
        values == OwnValues(args, self)
    IN /\ (outcome.exc = "none" /\ Cardinality(flags) <= 1) =>
            outcome.remaining = KeepAt(args, (1..Len(args)) \ (flags \cup values), 1)
       /\ (flags = {} /\ self.default # NoValue) =>
            /\ outcome.exc = "none"
            /\ outcome.arg_value = self.default
            /\ outcome.remaining = args
       /\ \A i \in flags :
            (/\ outcome.exc = "none" /\ flags = {i} /\ (i + 1) \in values
             /\ self.arg_type = T("NoValue") /\ self.default = NoValue) =>
               /\ args[i + 1] = <<"6">> => outcome.arg_value = VInt(6)
               /\ args[i + 1] = <<"F","a","l","s","e">> => outcome.arg_value = VBool(FALSE)
       /\ \A i \in flags :
            (/\ outcome.exc = "none" /\ flags = {i} /\ self.arg_type = T("bool")
             /\ Valueless(args, i)) => outcome.arg_value = VBool(TRUE)

\* the same with token lists that hold no help flag
C23_WithoutHelpFlag ==
  (\A i \in 1..Len(args) : args[i] # tok_help) => C23_ParseSingleArg

(***************************************************************************)
(* Descriptor lists of bound methods and classes.                          *)
(***************************************************************************)
n_other == <<"o","t","h","e","r">>
n_times == <<"t","i","m","e","s">>

\* Adder(2).add_to, with def add_to(self, other: int)
add_to ==
  [name |-> "add_to", kind |-> "method",
   args |-> <<n_self, n_other>>, defaults |-> <<>>,
   annotations |-> (n_other :> T("int"))]

\* a bound method with a default: def add_times(self, other: int, times: int = 1)
add_times ==
  [name |-> "add_times", kind |-> "method",
   args |-> <<n_self, n_other, n_times>>, defaults |-> <<VInt(1)>>,
   annotations |-> (n_other :> T("int")) @@ (n_times :> T("int"))]

DescriptorInstances ==
  { AutoArgParser(add_to, NoShortNames, FALSE), AutoArgParser(add_times, NoShortNames, FALSE),
    AutoArgParser(Person, NoShortNames, FALSE), AutoArgParser(maybe_negate, NoShortNames, FALSE) }

DescriptorVocabulary ==
  { <<"3">>, Named(n_other, <<"3">>), Named(n_times, <<"2">>), <<"S","u">>,
    <<"-","-">> \o n_name, Named(n_age, <<"3","0">>), <<"-","-">> \o n_negate }

InitDescriptors ==
  /\ pc = "ready"
  /\ self \in DescriptorInstances
  /\ args \in ListsUpTo(DescriptorVocabulary, MaxLen)
  /\ allow_remaining = FALSE
  /\ outcome = NoOutcome
  /\ type_annotation = T("str")
  /\ string_rep = <<>>
  /\ converted = NoOutcome

NextDescriptors == CallFromCommandLine

SpecDescriptors == InitDescriptors /\ [][NextDescriptors]_vars

\* the parameters a caller of the callable writes: all but the implicit first
\* one of a bound method or a class
ExplicitParameters(function) ==
  IF function.kind \in {"method", "class"} THEN Tail(function.args) ELSE function.args

\* C24: the descriptor list of a bound method or a class leaves out the
\* implicit first parameter and keeps the others in declaration order, the
\* defaults aligned to the tail, so that the first positional token binds to
\* the first explicit parameter; the list of a plain function drops nothing.
C24_DescriptorList ==
  LET explicit == ExplicitParameters(self.function)
      free == Len(explicit) - Len(self.function.defaults)
  IN /\ [i \in 1..Len(self.args) |-> self.args[i].name] = explicit
     /\ \A i \in 1..Len(self.args) :
          self.args[i].default =
            IF i <= free THEN NoValue ELSE self.function.defaults[i - free]
     /\ self.function.kind = "function" => Len(self.args) = Len(self.function.args)
     /\ (pc = "called" /\ args # <<>> /\ ~IsFlagKey(args[1])) =>
          /\ outcome.arg_strings[1] = Named(explicit[1], args[1])
          /\ outcome.exc = "none" => explicit[1] \in DOMAIN outcome.kwargs

\* Adder(2).add_to called with ['3']: other is bound to 3
C24_Witness ==
  /\ pc = "called"
  /\ self.function = add_to
  /\ args = << <<"3">> >>
  /\ outcome.exc = "none"
  /\ outcome.kwargs[n_other] = VInt(3)

(***************************************************************************)
(* The registration of boolean parameters.                                 *)
(***************************************************************************)
n_word == <<"w","o","r","d">>
n_loud == <<"l","o","u","d">>

\* a callable with a string and a boolean parameter:
\* def shout(word: str, loud: bool = False)
shout ==
  [name |-> "shout", kind |-> "function",
   args |-> <<n_word, n_loud>>, defaults |-> <<VBool(FALSE)>>,
   annotations |-> (n_word :> T("str")) @@ (n_loud :> T("bool"))]

\* AutoArgParser(shout, short_names={'loud': 'l'})
P_shout == AutoArgParser(shout, (n_loud :> <<"l">>), FALSE)

FlagVocabulary ==
  { <<"-","-">> \o n_word, n_loud, <<"h","i">>, <<"-","-">> \o n_loud, <<"-","l">>,
    Named(n_loud, <<"1">>), <<"-","5">>, <<"n","o">> }

InitFlag ==
  /\ pc = "ready"
  /\ self = P_shout
  /\ args \in ListsUpTo(FlagVocabulary, MaxLen)
  /\ allow_remaining = FALSE
  /\ outcome = NoOutcome
  /\ type_annotation = T("str")
  /\ string_rep = <<>>
  /\ converted = NoOutcome

NextFlag == \E allow \in BOOLEAN : ParseArgStringAndRemaining(allow)

SpecFlag == InitFlag /\ [][NextFlag]_vars

\* the parameters of boolean type, declared or guessed from the default
BooleanParams(p) ==
  {i \in 1..Len(p.args) :
     \/ p.args[i].type = T("bool")
     \/ p.args[i].type = T("NoValue") /\ p.args[i].default.t = "bool"}

\* the parameter's own flag token, written without '='
OwnBareFlag(tok, name, short) ==
  tok = <<"-","-">> \o name \/ (short # <<>> /\ tok = <<"-">> \o short[1])

\* C25 as stated: a boolean parameter is registered as a present-means-true
\* flag exactly when its own flag token, written without '=', is the last
\* token or stands immediately before another flag token (any token that
\* starts with a dash is taken for one here); otherwise, also
\* when a value token of another parameter equals its name, it is
\* registered as value-consuming.
C25_FlagRegistration ==
  pc = "parsed" =>
    \A b \in BooleanParams(self) :
      \A a \in 1..Len(outcome.parser.actions) :
        outcome.parser.actions[a].dest = self.args[b].name =>
          (outcome.parser.actions[a].kind = "store_true" <=>
             \E i \in 1..Len(args) :
                /\ OwnBareFlag(args[i], self.args[b].name,
                               ShortNameOf(self.short_names, self.args[b].name))
                /\ (i = Len(args) \/ StartsWith(args[i + 1], <<"-">>)))

(***************************************************************************)
(* The call operations on token lists that let a nested record succeed or  *)
(* fail within the bound.                                                  *)
(***************************************************************************)
InvokeVocabulary ==
  { <<"H","i">>, <<"4">>, Named(n_b, <<"5">>),
    RecordPrefix(n_person) \o n_name \o <<"=","S","u">>,
    RecordPrefix(n_person) \o n_age \o <<"=","3","0">>,
    RecordPrefix(n_person) \o n_age \o <<"=","x">>,
    <<"-","-","d","=","4">>, tok_help }

InitInvoke ==
  /\ pc = "ready"
  /\ self \in {P_greet, P_minus}
  /\ args \in ListsUpTo(InvokeVocabulary, MaxLen)
  /\ allow_remaining = FALSE
  /\ outcome = NoOutcome
  /\ type_annotation = T("str")
  /\ string_rep = <<>>
  /\ converted = NoOutcome

NextInvoke ==
  \/ CallFromCommandLineWithRemaining
  \/ CallFromCommandLine

SpecInvoke == InitInvoke /\ [][NextInvoke]_vars

\* C26: call_from_command_line_with_remaining runs the wrapped callable at
\* most once, and only when promotion, the routing with every nested-record
\* parse, the flat parse and the conversions have all succeeded; when one of
\* them fails the call ends in that error and the callable is not run.
C26_InvokedAfterParse ==
  pc = "called" =>
    LET parsed == parse_arg_string_and_remaining(self, args, allow_remaining)
    IN /\ outcome.invoked \in {0, 1}
       /\ outcome.invoked = 1 =>
            /\ parsed.exc = "none"
            /\ outcome.exc = "none"
            /\ outcome.flat_status = "ok"
            /\ outcome.nested_invoked = Cardinality(RecordParams(self))
            /\ \A i \in 1..Len(self.args) :
                 self.args[i].default = NoValue => self.args[i].name \in DOMAIN outcome.kwargs
       /\ parsed.exc # "none" =>
            /\ outcome.exc = parsed.exc
            /\ outcome.invoked = 0
            /\ outcome.return_val = NoValue

\* greet_persion called with a greeting and a complete person: the nested
\* record was built, then the callable ran once
C26_Witness ==
  /\ pc = "called"
  /\ self = P_greet
  /\ outcome.exc = "none"
  /\ outcome.nested_invoked = 1
  /\ outcome.invoked = 1


(***************************************************************************)
(* Several parse calls on one instance: after a call the caller passes a   *)
(* token list again, the list it holds or another one.                     *)
(***************************************************************************)
RepeatVocabulary ==
  { <<"4">>, Named(n_b, <<"5">>),
    RecordPrefix(n_person) \o n_name \o <<"=","S","u">>,
    RecordPrefix(n_person) \o n_age \o <<"=","3","0">>,
    RecordPrefix(n_person) \o n_age \o <<"=","x">> }

InitRepeat ==
  /\ pc = "ready"
  /\ self \in {P_greet, P_minus}
  /\ args \in ListsUpTo(RepeatVocabulary, MaxLen)
  /\ allow_remaining = FALSE
  /\ outcome = NoOutcome
  /\ type_annotation = T("str")
  /\ string_rep = <<>>
  /\ converted = NoOutcome

\* self.parse_arg_string_and_remaining(args, allow_remaining=allow), the first
\* call on the instance or a later one; the method assigns no attribute of
\* self, and leaves the caller's list as ArgStringObjects says
ParseAgain(allow) ==
  /\ pc \in {"ready", "again"}
  /\ pc' = IF pc = "ready" THEN "parsed" ELSE "reparsed"
  /\ allow_remaining' = allow
  /\ outcome' = parse_arg_string_and_remaining(self, args, allow)
                  @@ [return_val |-> NoValue, invoked |-> 0]
  /\ self' = self
  /\ args' = ArgStringObjects(self, args).caller
  /\ UNCHANGED converter_vars

\* the caller, between two calls
PassTokens ==
  /\ pc \in {"parsed", "reparsed"}
  /\ pc' = "again"
  /\ args' \in ListsUpTo(RepeatVocabulary, MaxLen) \cup {args}
  /\ outcome' = NoOutcome
  /\ UNCHANGED <<self, allow_remaining>>
  /\ UNCHANGED converter_vars

NextRepeat ==
  \/ \E allow \in BOOLEAN : ParseAgain(allow)
  \/ PassTokens

SpecRepeat == InitRepeat /\ [][NextRepeat]_vars

=============================================================================
